---- MODULE Spec2Model ----
(***************************************************************************)
(* vipauto-crm: the order lifecycle, the per-order salary trigger, the     *)
(* debt/payment trigger and the order identifier allocator.                *)
(*                                                                         *)
(* The state is the content of the Postgres tables the order API and the   *)
(* triggers touch.  One action is one request handler of                   *)
(* backend/src/controllers/orders.ts, or one SQL statement on a table      *)
(* whose controller is not part of the sources (payments, debts); every    *)
(* statement carries the constraints of 001_create_tables.sql and the      *)
(* triggers of 003_triggers_and_functions.sql.  A statement that raises    *)
(* leaves the tables as they were (statement-level atomicity); a handler   *)
(* that issues several statements keeps the effect of the statements that  *)
(* ran before the one that raised (the handlers open no transaction).      *)
(*                                                                         *)
(* Units: money is counted in hundredths (DECIMAL(10,2)), a percentage in  *)
(* hundredths of a percent (DECIMAL(5,2)), a date in days, day 0 being a   *)
(* Monday.  An order identifier is the sequence of digits that follows the *)
(* 'ZA' prefix.                                                            *)
(*                                                                         *)
(* Reading notes.                                                          *)
(*  - orders.ts:195 writes the shorthand property services_cost while the  *)
(*    value is bound to servicesCost on line 184; the model reads the      *)
(*    property as that value.                                              *)
(*  - trigger_create_order_notification (AFTER INSERT ON order_masters)    *)
(*    is part of the statement in SpecNotify only.  The handlers of the    *)
(*    order API are modelled on a database without that trigger, so that   *)
(*    their states hold assignment rows.                                   *)
(*  - the backend connects with the service key (config/database.ts:5-7),  *)
(*    so row-level security does not filter its statements.                *)
(***************************************************************************)
EXTENDS Integers, Sequences, FiniteSets, Bags, TLC

NULL == "NULL"

\* The NULL of an order identifier column: no digits at all.
NullId == << >>

\* ----------------------------------------------------------------------
\* Bounds of the model
\* ----------------------------------------------------------------------
MaxOrders == 1
MaxIdOrders == 4
MaxDebts == 2
MaxPayments == 2
MaxSalaryRows == 2
StartDay == 6
MaxDay == 7

\* ----------------------------------------------------------------------
\* Program constants
\* ----------------------------------------------------------------------
\* The nine status tokens of orders.status, transliterated to ASCII:
\* novyj = 'новый', prinyal = 'принял', diagnostika = 'диагностика',
\* v_rabote = 'в_работе', ozhidanie_detalej = 'ожидание_деталей',
\* gotovo = 'готово', ozhidanie_oplaty = 'ожидание_оплаты',
\* vydan = 'выдан', zakryt = 'закрыт'.
Statuses ==
  {"novyj", "prinyal", "diagnostika", "v_rabote", "ozhidanie_detalej",
   "gotovo", "ozhidanie_oplaty", "vydan", "zakryt"}

TerminalStatuses == {"vydan", "zakryt"}

IdPadWidth == 3

PercentTotal == 10000

PercentTolerance == 1

\* ----------------------------------------------------------------------
\* Text and numbers: SUBSTRING(id, 3)::INTEGER, next_num::TEXT, LPAD, MAX
\* ----------------------------------------------------------------------
RECURSIVE DigitsToInt(_)
DigitsToInt(ds) ==
  IF Len(ds) = 0 THEN 0
  ELSE 10 * DigitsToInt(SubSeq(ds, 1, Len(ds) - 1)) + ds[Len(ds)]

RECURSIVE IntToDigits(_)
IntToDigits(n) ==
  IF n < 10 THEN <<n>> ELSE Append(IntToDigits(n \div 10), n % 10)

\* LPAD(string, length, '0'): pads on the left up to length, and cuts a
\* longer string down to its first length characters.
LPad(ds, width) ==
  IF Len(ds) >= width THEN SubSeq(ds, 1, width)
  ELSE [i \in 1..(width - Len(ds)) |-> 0] \o ds

\* String order of two digit strings: the first differing character
\* decides, and a proper prefix sorts first.
StrLess(a, b) ==
  \/ \E i \in 1..Len(a) :
       /\ i <= Len(b)
       /\ a[i] < b[i]
       /\ \A j \in 1..(i - 1) : a[j] = b[j]
  \/ /\ Len(a) < Len(b)
     /\ \A j \in 1..Len(a) : a[j] = b[j]

\* SELECT MAX(id): the greatest identifier in string order.
MaxId(ids) ==
  CHOOSE x \in ids : \A y \in ids : y = x \/ StrLess(y, x)

\* ----------------------------------------------------------------------
\* Arithmetic
\* ----------------------------------------------------------------------
Abs(x) == IF x < 0 THEN -x ELSE x

Greatest(a, b) == IF a >= b THEN a ELSE b

RECURSIVE SumSeq(_)
SumSeq(s) == IF Len(s) = 0 THEN 0 ELSE s[1] + SumSeq(Tail(s))

\* ----------------------------------------------------------------------
\* Inputs of the requests
\* ----------------------------------------------------------------------
\* The rows of the masters table (user administration is not part of the
\* order API).
Masters == {"m1", "m2"}

\* Service line items {price, qty} (types/index.ts OrderService).
ServiceLists ==
  { <<[price |-> 30000, qty |-> 2]>>,
    <<[price |-> 10000, qty |-> 1], [price |-> 5000, qty |-> 2]>> }

PartsCostInputs == {0, 40000}

StatusInputs == {"novyj", "v_rabote", "vydan", "zakryt"}

\* masters: [{master_id, percent}] of CreateOrderData / UpdateOrderData.
\* The percentages are whole numbers of percent, so that their float sum
\* in the handlers is exact.
MasterLists ==
  { <<[master_id |-> "m1", percent |-> 10000]>>,
    <<[master_id |-> "m1", percent |-> 6000],
      [master_id |-> "m2", percent |-> 4000]>>,
    <<[master_id |-> "m1", percent |-> 5000],
      [master_id |-> "m2", percent |-> 4000]>>,
    <<[master_id |-> "m1", percent |-> 5000],
      [master_id |-> "m1", percent |-> 5000]>> }

\* Identifiers a request can address: the first two the allocator hands
\* out (the second is stored only when MaxOrders allows two orders).
OrderIdInputs == { <<0, 0, 1>>, <<0, 0, 2>> }

Roles == {"master", "admin", "director"}

\* The rows of auth.users at the start: the two masters, an administrator
\* and the director.  A master signs in under the id of the masters row.
InitialUsers ==
  [u \in Masters \cup {"a1", "d1"} |->
     IF u = "a1" THEN "admin" ELSE IF u = "d1" THEN "director" ELSE "master"]

\* req.user of a request that did not pass authenticateToken.
NoUser == [id |-> NULL, role |-> NULL]

\* The database sessions that can run an INSERT INTO orders side by side.
Sessions == {"s1", "s2"}

\* No statement in progress in a session.
NoRow == [id |-> NullId, step |-> "idle", parts_cost |-> 0]

\* The times of day the model tells apart: morning, midday and evening.
Phases == 0..2

FirstPhase == CHOOSE p \in Phases : \A q \in Phases : p <= q

\* The two ways a run of the salary job starts: the cron schedule and
\* triggerSalaryCalculation.
Runners == {"scheduled", "manual"}

\* No run in progress.
NoRun == [step |-> "idle", weekStart |-> 0, todo |-> << >>, found |-> 0]

\* The requests the server can handle side by side: a handler gives way
\* to another at every await.
Handlers == {"h1", "h2"}

\* No request in progress.
NoRequest == [step |-> "idle", id |-> NullId, masters |-> <<>>]

\* ----------------------------------------------------------------------
\* State: the tables, the calendar and the last response
\* ----------------------------------------------------------------------
VARIABLES
  orders,         \* id -> [parts_cost, services_cost, total, status, services,
                  \*        created_by, updated_at]
  order_masters,  \* set of [order_id, master_id, percent]
  salaries,       \* bag of [master_id, order_id, amount, week_period]
  debts,          \* debt id -> [amount, remaining, order_id]
  payments,       \* rows [order_id, parts_sale_id, debt_id, amount], oldest first
  today,          \* CURRENT_DATE
  last,           \* the request handled last and its response
  notifications,  \* bag of [user_id, type, entity_id, entity_type]
  pending,        \* session -> the row an INSERT INTO orders in progress holds
  users,          \* user id -> role (the rows of auth.users)
  caller,         \* req.user as authenticateToken left it
  parts_sales,    \* the ids of the rows of parts_sales
  clock,          \* the time of day, one of Phases
  jobs,           \* runner -> the run of the salary job in progress
  requests        \* handler -> the updateOrderMasters request in progress

vars == <<orders, order_masters, salaries, debts, payments, today, last,
          notifications, pending, users, caller, parts_sales, clock, jobs, requests>>

\* NOW() of a statement: the day and the time of day.
Now == <<today, clock>>

\* ----------------------------------------------------------------------
\* orders: generated column, identifier trigger, INSERT
\* ----------------------------------------------------------------------
\* total DECIMAL(10,2) GENERATED ALWAYS AS (parts_cost + services_cost)
GeneratedTotal(parts_cost, services_cost) == parts_cost + services_cost

OrderRow(parts_cost, services_cost, status, services, created_by, updated_at) ==
  [parts_cost    |-> parts_cost,
   services_cost |-> services_cost,
   total         |-> GeneratedTotal(parts_cost, services_cost),
   status        |-> status,
   services      |-> services,
   created_by    |-> created_by,
   updated_at    |-> updated_at]

\* generate_order_id(): ids is the set of stored identifiers matching
\* '^ZA[0-9]+$' (every identifier of the model does).
generate_order_id(ids) ==
  IF ids = {} THEN <<0, 0, 1>>
  ELSE LPad(IntToDigits(DigitsToInt(MaxId(ids)) + 1), IdPadWidth)

\* An INSERT INTO orders that writes the row over a stored row with the
\* same identifier instead of raising on the primary key.
InsertOrderStmtOverwriting(ord, id, parts_cost, services_cost, status, services, created_by, now) ==
  LET newId == IF id = NullId THEN generate_order_id(DOMAIN ord) ELSE id
  IN  IF status \notin Statuses
        THEN [ok |-> FALSE, code |-> "23514", id |-> newId, orders |-> ord]
      ELSE [ok |-> TRUE, code |-> "OK", id |-> newId,
            orders |-> (newId :> OrderRow(parts_cost, services_cost, status,
                                          services, created_by, now))
                       @@ ord]

\* INSERT INTO orders: trigger_generate_order_id fires WHEN (NEW.id IS NULL);
\* the primary key and the status CHECK are enforced after it; updated_at
\* takes its default NOW().
InsertOrderStmt(ord, id, parts_cost, services_cost, status, services, created_by, now) ==
  LET newId == IF id = NullId THEN generate_order_id(DOMAIN ord) ELSE id
  IN  IF newId \in DOMAIN ord
        THEN [ok |-> FALSE, code |-> "23505", id |-> newId, orders |-> ord]
      ELSE IF status \notin Statuses
        THEN [ok |-> FALSE, code |-> "23514", id |-> newId, orders |-> ord]
      ELSE [ok |-> TRUE, code |-> "OK", id |-> newId,
            orders |-> ord @@
              (newId :> OrderRow(parts_cost, services_cost, status, services,
                                 created_by, now))]

\* ----------------------------------------------------------------------
\* order_masters: INSERT of several rows in one statement, DELETE
\* ----------------------------------------------------------------------
AssignmentRows(id, masters) ==
  { [order_id |-> id, master_id |-> masters[i].master_id,
     percent |-> masters[i].percent] : i \in 1..Len(masters) }

\* FK to orders and masters, CHECK (percent > 0 AND percent <= 100),
\* UNIQUE (order_id, master_id); one statement, so all rows or none.
InsertOrderMastersStmt(ord, om, id, masters) ==
  LET rows == AssignmentRows(id, masters)
  IN  IF id \notin DOMAIN ord
           \/ \E i \in 1..Len(masters) : masters[i].master_id \notin Masters
        THEN [ok |-> FALSE, code |-> "23503", order_masters |-> om]
      ELSE IF \E r \in rows : ~(r.percent > 0 /\ r.percent <= PercentTotal)
        THEN [ok |-> FALSE, code |-> "23514", order_masters |-> om]
      ELSE IF \/ \E i, j \in 1..Len(masters) :
                   i # j /\ masters[i].master_id = masters[j].master_id
              \/ \E r \in rows : \E q \in om :
                   q.order_id = r.order_id /\ q.master_id = r.master_id
        THEN [ok |-> FALSE, code |-> "23505", order_masters |-> om]
      ELSE [ok |-> TRUE, code |-> "OK", order_masters |-> om \cup rows]

DeleteOrderMastersStmt(om, id) == { r \in om : r.order_id # id }

MastersOf(om, id) == { r \in om : r.order_id = id }

\* ----------------------------------------------------------------------
\* salaries and the trigger calculate_order_salary
\* ----------------------------------------------------------------------
\* The salaries table declares a primary key on id and no other unique
\* constraint or unique index: nothing on (master_id, order_id).
SalariesUniqueMasterOrder == FALSE

\* date_trunc('week', CURRENT_DATE): the Monday of the current week.
WeekStart(day) == day - (day % 7)

\* salary_amount DECIMAL(10,2) := total * (percent / 100): the product
\* is rounded to two decimals, half away from zero.
SalaryAmount(total, percent) ==
  (total * percent + (PercentTotal \div 2)) \div PercentTotal

SalaryRow(master_id, order_id, amount, week_period) ==
  [master_id |-> master_id, order_id |-> order_id,
   amount |-> amount, week_period |-> week_period]

PerOrderRows(sal, master_id, order_id) ==
  { r \in BagToSet(sal) : r.master_id = master_id /\ r.order_id = order_id }

\* A plain INSERT INTO salaries, without the ON CONFLICT clause.
InsertSalaryPlain(sal, row) ==
  [ok |-> TRUE, code |-> "OK", salaries |-> sal (+) SetToBag({row})]

\* INSERT INTO salaries ... ON CONFLICT (master_id, order_id) DO NOTHING.
\* Postgres resolves the conflict target to a unique index on exactly those
\* columns and raises 42P10 when there is none.
InsertSalaryOnConflictDoNothing(sal, row) ==
  IF ~SalariesUniqueMasterOrder
    THEN [ok |-> FALSE, code |-> "42P10", salaries |-> sal]
  ELSE IF PerOrderRows(sal, row.master_id, row.order_id) # {}
    THEN [ok |-> TRUE, code |-> "OK", salaries |-> sal]
  ELSE [ok |-> TRUE, code |-> "OK", salaries |-> sal (+) SetToBag({row})]

\* FOR master_record IN SELECT * FROM order_masters WHERE order_id = NEW.id
RECURSIVE SalaryLoop(_, _, _, _, _)
SalaryLoop(rows, sal, id, total, day) ==
  IF rows = {} THEN [ok |-> TRUE, code |-> "OK", salaries |-> sal]
  ELSE LET master_record == CHOOSE r \in rows : TRUE
           res == InsertSalaryOnConflictDoNothing(sal,
                    SalaryRow(master_record.master_id, id,
                              SalaryAmount(total, master_record.percent),
                              WeekStart(day)))
       IN  IF ~res.ok THEN [ok |-> FALSE, code |-> res.code, salaries |-> sal]
           ELSE SalaryLoop(rows \ {master_record}, res.salaries, id, total, day)

\* The IF of calculate_order_salary.
SalaryTriggerFires(oldStatus, newStatus) ==
  newStatus \in TerminalStatuses /\ oldStatus \notin TerminalStatuses

\* A trigger that inserts a row per assigned master, with a plain INSERT, on
\* every update that leaves the order in a terminal status.
calculate_order_salary_on_terminal(oldRow, newRow, id, om, sal, day) ==
  IF newRow.status \in TerminalStatuses
    THEN [ok |-> TRUE, code |-> "OK",
          salaries |-> sal (+) SetToBag(
            { SalaryRow(a.master_id, id, SalaryAmount(newRow.total, a.percent),
                        WeekStart(day)) : a \in MastersOf(om, id) })]
  ELSE [ok |-> TRUE, code |-> "OK", salaries |-> sal]

RECURSIVE CopiesOfMoved(_, _)
CopiesOfMoved(sal, rows) ==
  IF rows = {} THEN 0
  ELSE LET r == CHOOSE x \in rows : TRUE
       IN  sal[r] + CopiesOfMoved(sal, rows \ {r})

\* A trigger that brings the amounts of the rows already recorded for the
\* order in line with its current total on every update.
calculate_order_salary_recomputing(oldRow, newRow, id, om, sal, day) ==
  LET Amount(r) ==
        IF r.order_id = id
             /\ \E a \in MastersOf(om, id) : a.master_id = r.master_id
          THEN LET a == CHOOSE a \in MastersOf(om, id) :
                          a.master_id = r.master_id
               IN  SalaryAmount(newRow.total, a.percent)
        ELSE r.amount
      rows == BagToSet(sal)
      moved == { [r EXCEPT !.amount = Amount(r)] : r \in rows }
  IN  [ok |-> TRUE, code |-> "OK",
       salaries |-> [n \in moved |->
                       CopiesOfMoved(sal, { r \in rows :
                                      [r EXCEPT !.amount = Amount(r)] = n })]]

\* calculate_order_salary(), AFTER UPDATE ON orders FOR EACH ROW.
calculate_order_salary(oldRow, newRow, id, om, sal, day) ==
  IF SalaryTriggerFires(oldRow.status, newRow.status)
    THEN SalaryLoop(MastersOf(om, id), sal, id, newRow.total, day)
  ELSE [ok |-> TRUE, code |-> "OK", salaries |-> sal]

\* ----------------------------------------------------------------------
\* orders: UPDATE ... WHERE id = ..., with its AFTER UPDATE trigger
\* ----------------------------------------------------------------------
\* A stored total that is written once at INSERT and kept by UPDATE.
PatchedKeepingTotal(old, patch) ==
  [parts_cost    |-> IF "parts_cost" \in patch.set THEN patch.parts_cost
                     ELSE old.parts_cost,
   services_cost |-> IF "services_cost" \in patch.set
                       THEN patch.services_cost ELSE old.services_cost,
   total         |-> old.total,
   status        |-> IF "status" \in patch.set THEN patch.status
                     ELSE old.status,
   services      |-> IF "services" \in patch.set THEN patch.services
                     ELSE old.services,
   created_by    |-> old.created_by,
   updated_at    |-> old.updated_at]

\* A patch is the JSON body of the update: set holds the columns it
\* carries (a property that is undefined is left out by JSON.stringify),
\* and a column outside set keeps its stored value.
Patched(old, patch) ==
  LET parts_cost    == IF "parts_cost" \in patch.set THEN patch.parts_cost
                       ELSE old.parts_cost
      services_cost == IF "services_cost" \in patch.set
                         THEN patch.services_cost ELSE old.services_cost
      status        == IF "status" \in patch.set THEN patch.status
                       ELSE old.status
      services      == IF "services" \in patch.set THEN patch.services
                       ELSE old.services
  IN  OrderRow(parts_cost, services_cost, status, services, old.created_by,
               old.updated_at)

\* update_updated_at_column(), BEFORE UPDATE ON orders FOR EACH ROW:
\* NEW.updated_at = NOW().
update_updated_at_column(NEW_row, now) == [NEW_row EXCEPT !.updated_at = now]

\* found = FALSE: no row has this id, nothing is updated and no trigger runs.
UpdateOrderStmt(ord, om, sal, day, now, id, patch) ==
  IF id \notin DOMAIN ord
    THEN [ok |-> TRUE, found |-> FALSE, code |-> "OK",
          orders |-> ord, salaries |-> sal]
  ELSE LET newRow == update_updated_at_column(Patched(ord[id], patch), now)
           trg == calculate_order_salary(ord[id], newRow, id, om, sal, day)
       IN  IF newRow.status \notin Statuses
             THEN [ok |-> FALSE, found |-> TRUE, code |-> "23514",
                   orders |-> ord, salaries |-> sal]
           ELSE IF ~trg.ok
             THEN [ok |-> FALSE, found |-> TRUE, code |-> trg.code,
                   orders |-> ord, salaries |-> sal]
           ELSE [ok |-> TRUE, found |-> TRUE, code |-> "OK",
                 orders |-> [ord EXCEPT ![id] = newRow],
                 salaries |-> trg.salaries]

\* ----------------------------------------------------------------------
\* debts and payments: statements and the trigger update_debt_on_payment
\* ----------------------------------------------------------------------
DebtIds == {"d1", "d2"}

\* The rows of parts_sales at the start.
PartsSales == {"ps1"}

MoneyInputs == {20000, 50000, 70000}

\* INSERT INTO debts: CHECK (amount > 0), CHECK (remaining >= 0),
\* order_id REFERENCES orders(id).
InsertDebtStmt(ord, dbt, id, amount, remaining, order_id) ==
  IF order_id # NullId /\ order_id \notin DOMAIN ord
    THEN [ok |-> FALSE, code |-> "23503", debts |-> dbt]
  ELSE IF ~(amount > 0) \/ ~(remaining >= 0)
    THEN [ok |-> FALSE, code |-> "23514", debts |-> dbt]
  ELSE IF id \in DOMAIN dbt
    THEN [ok |-> FALSE, code |-> "23505", debts |-> dbt]
  ELSE [ok |-> TRUE, code |-> "OK",
        debts |-> dbt @@ (id :> [amount |-> amount, remaining |-> remaining,
                                 order_id |-> order_id])]

\* A trigger that subtracts the payment from the amount first owed instead
\* of from what remains.
update_debt_on_payment_from_amount(dbt, row) ==
  IF row.debt_id # NULL /\ row.debt_id \in DOMAIN dbt
    THEN [dbt EXCEPT ![row.debt_id].remaining =
            Greatest(0, dbt[row.debt_id].amount - row.amount)]
  ELSE dbt

\* update_debt_on_payment(), AFTER INSERT ON payments FOR EACH ROW:
\* UPDATE debts SET remaining = GREATEST(0, remaining - NEW.amount)
\* WHERE id = NEW.debt_id.
update_debt_on_payment(dbt, row) ==
  IF row.debt_id # NULL /\ row.debt_id \in DOMAIN dbt
    THEN [dbt EXCEPT ![row.debt_id].remaining =
            Greatest(0, dbt[row.debt_id].remaining - row.amount)]
  ELSE dbt

\* INSERT INTO payments: the three foreign keys, CHECK (amount > 0), the
\* CHECK that one reference at least is set, then the trigger and the
\* CHECK (remaining >= 0) of the debt row it rewrites.
InsertPaymentStmt(ord, dbt, ps, pay, row) ==
  LET dbt2 == update_debt_on_payment(dbt, row)
  IN  IF \/ row.order_id # NullId /\ row.order_id \notin DOMAIN ord
         \/ row.parts_sale_id # NULL /\ row.parts_sale_id \notin ps
         \/ row.debt_id # NULL /\ row.debt_id \notin DOMAIN dbt
        THEN [ok |-> FALSE, code |-> "23503", debts |-> dbt, payments |-> pay]
      ELSE IF \/ ~(row.amount > 0)
              \/ row.order_id = NullId /\ row.parts_sale_id = NULL
                   /\ row.debt_id = NULL
              \/ \E d \in DOMAIN dbt2 : ~(dbt2[d].remaining >= 0)
        THEN [ok |-> FALSE, code |-> "23514", debts |-> dbt, payments |-> pay]
      ELSE [ok |-> TRUE, code |-> "OK", debts |-> dbt2,
            payments |-> Append(pay, row)]

\* ----------------------------------------------------------------------
\* orders: DELETE ... WHERE id = ..., with the referential actions
\* ----------------------------------------------------------------------
\* A payment stripped of every reference: what the CHECK of payments
\* forbids.
Unreferenced(row) ==
  row.order_id = NullId /\ row.parts_sale_id = NULL /\ row.debt_id = NULL

\* A deletion whose SET NULL on payments is not held to the CHECK.
DeleteOrderStmtUnchecked(ord, om, sal, dbt, pay, id) ==
  LET keep == { r \in DOMAIN sal : r.order_id # id }
  IN  [ok |-> TRUE, code |-> "OK",
       orders |-> [o \in DOMAIN ord \ {id} |-> ord[o]],
       order_masters |-> { r \in om : r.order_id # id },
       salaries |-> [r \in keep |-> sal[r]],
       debts |-> [d \in DOMAIN dbt |->
                    IF dbt[d].order_id = id
                      THEN [dbt[d] EXCEPT !.order_id = NullId] ELSE dbt[d]],
       payments |-> [i \in 1..Len(pay) |->
                       IF pay[i].order_id = id
                         THEN [pay[i] EXCEPT !.order_id = NullId]
                       ELSE pay[i]]]

\* order_masters and salaries: ON DELETE CASCADE; debts and payments:
\* ON DELETE SET NULL, an update of the referencing row that is subject to
\* the CHECK constraints of its table.
DeleteOrderStmt(ord, om, sal, dbt, pay, id) ==
  LET pay2 == [i \in 1..Len(pay) |->
                 IF pay[i].order_id = id
                   THEN [pay[i] EXCEPT !.order_id = NullId] ELSE pay[i]]
      keep == { r \in DOMAIN sal : r.order_id # id }
  IN  IF \E i \in 1..Len(pay2) :
            pay2[i].order_id = NullId /\ pay2[i].parts_sale_id = NULL
              /\ pay2[i].debt_id = NULL
        THEN [ok |-> FALSE, code |-> "23514", orders |-> ord,
              order_masters |-> om, salaries |-> sal, debts |-> dbt,
              payments |-> pay]
      ELSE [ok |-> TRUE, code |-> "OK",
            orders |-> [o \in DOMAIN ord \ {id} |-> ord[o]],
            order_masters |-> DeleteOrderMastersStmt(om, id),
            salaries |-> [r \in keep |-> sal[r]],
            debts |-> [d \in DOMAIN dbt |->
                         IF dbt[d].order_id = id
                           THEN [dbt[d] EXCEPT !.order_id = NullId] ELSE dbt[d]],
            payments |-> pay2]

\* DELETE FROM debts WHERE id = ...: payments.debt_id is ON DELETE SET
\* NULL, an update of the payment that is subject to the CHECK of payments.
DeleteDebtStmt(dbt, pay, id) ==
  LET pay2 == [i \in 1..Len(pay) |->
                 IF pay[i].debt_id = id
                   THEN [pay[i] EXCEPT !.debt_id = NULL] ELSE pay[i]]
  IN  IF \E i \in 1..Len(pay2) : Unreferenced(pay2[i])
        THEN [ok |-> FALSE, code |-> "23514", debts |-> dbt, payments |-> pay]
      ELSE [ok |-> TRUE, code |-> "OK",
            debts |-> [d \in DOMAIN dbt \ {id} |-> dbt[d]],
            payments |-> pay2]

\* DELETE FROM parts_sales WHERE id = ...: payments.parts_sale_id is
\* ON DELETE SET NULL, under the same CHECK.
DeletePartsSaleStmt(ps, pay, id) ==
  LET pay2 == [i \in 1..Len(pay) |->
                 IF pay[i].parts_sale_id = id
                   THEN [pay[i] EXCEPT !.parts_sale_id = NULL] ELSE pay[i]]
  IN  IF \E i \in 1..Len(pay2) : Unreferenced(pay2[i])
        THEN [ok |-> FALSE, code |-> "23514", parts_sales |-> ps,
              payments |-> pay]
      ELSE [ok |-> TRUE, code |-> "OK", parts_sales |-> ps \ {id},
            payments |-> pay2]

\* ----------------------------------------------------------------------
\* The API handlers (controllers/orders.ts)
\* ----------------------------------------------------------------------
Percents(masters) == [i \in 1..Len(masters) |-> masters[i].percent]

\* Math.abs(totalPercentage - 100) > 0.01 rejects; PercentOk is its negation.
PercentOk(masters) ==
  Abs(SumSeq(Percents(masters)) - PercentTotal) <= PercentTolerance

\* The sum of the unit prices, the quantities left out.
ServicesCostIgnoringQty(services) ==
  SumSeq([i \in 1..Len(services) |-> services[i].price])

\* services.reduce((sum, service) => sum + service.price * service.qty, 0)
ServicesCost(services) ==
  SumSeq([i \in 1..Len(services) |-> services[i].price * services[i].qty])

Response(op, id, status, masters, code) ==
  [op |-> op, id |-> id, status |-> status, masters |-> masters, code |-> code]

\* The closing select of createOrder and updateOrder embeds
\* order_masters!inner: an order without assignment rows yields no row and
\* .single() reports an error.
FetchFullOrderFails(ord, om, id) ==
  id \notin DOMAIN ord \/ MastersOf(om, id) = {}

\* POST /orders
createOrder(req) ==
  /\ Cardinality(DOMAIN orders) < MaxOrders
  /\ LET ins == InsertOrderStmt(orders, NullId, req.parts_cost,
                                ServicesCost(req.services), req.status,
                                req.services, caller.id, Now)
         mst == InsertOrderMastersStmt(ins.orders, order_masters, ins.id,
                                       req.masters)
     IN  IF Len(req.services) = 0 \/ Len(req.masters) = 0
              \/ ~PercentOk(req.masters)
           THEN /\ last' = Response("createOrder", NullId, req.status,
                                    req.masters, 400)
                /\ UNCHANGED <<orders, order_masters>>
         ELSE IF ~ins.ok
           THEN /\ last' = Response("createOrder", NullId, req.status,
                                    req.masters, 500)
                /\ UNCHANGED <<orders, order_masters>>
         ELSE IF ~mst.ok
           THEN /\ orders' = ins.orders
                /\ last' = Response("createOrder", ins.id, req.status,
                                    req.masters, 500)
                /\ UNCHANGED order_masters
         ELSE /\ orders' = ins.orders
              /\ order_masters' = mst.order_masters
              /\ last' = Response("createOrder", ins.id, req.status,
                            req.masters,
                            IF FetchFullOrderFails(ins.orders,
                                                   mst.order_masters, ins.id)
                              THEN 500 ELSE 201)
  /\ UNCHANGED <<salaries, debts, payments, today>>
  /\ UNCHANGED <<notifications, pending, users, caller, parts_sales, clock, jobs, requests>>

\* PUT /orders/:id
updateOrder(id, req) ==
  LET status == IF "status" \in req.set THEN req.status ELSE NULL
      patch == [set |-> req.set \cup
                        (IF "services" \in req.set THEN {"services_cost"}
                         ELSE {}),
                parts_cost    |-> req.parts_cost,
                services_cost |-> ServicesCost(req.services),
                status        |-> req.status,
                services      |-> req.services]
      upd == UpdateOrderStmt(orders, order_masters, salaries, today, Now, id, patch)
      del == DeleteOrderMastersStmt(order_masters, id)
      mst == InsertOrderMastersStmt(upd.orders, del, id, req.masters)
  IN  /\ IF id \notin DOMAIN orders \/ ~upd.ok
           THEN /\ last' = Response("updateOrder", id, status,
                                    req.masters, 500)
                /\ UNCHANGED <<orders, order_masters, salaries>>
         ELSE IF Len(req.masters) = 0
           THEN /\ orders' = upd.orders
                /\ salaries' = upd.salaries
                /\ last' = Response("updateOrder", id, status, req.masters,
                              IF FetchFullOrderFails(upd.orders, order_masters,
                                                     id)
                                THEN 500 ELSE 200)
                /\ UNCHANGED order_masters
         ELSE IF ~mst.ok
           THEN /\ orders' = upd.orders
                /\ salaries' = upd.salaries
                /\ order_masters' = del
                /\ last' = Response("updateOrder", id, status,
                                    req.masters, 500)
         ELSE /\ orders' = upd.orders
              /\ salaries' = upd.salaries
              /\ order_masters' = mst.order_masters
              /\ last' = Response("updateOrder", id, status, req.masters,
                                  200)
      /\ UNCHANGED <<debts, payments, today>>
      /\ UNCHANGED <<notifications, pending, users, caller, parts_sales, clock, jobs, requests>>

\* PATCH /orders/:id/status
updateOrderStatus(id, status) ==
  LET patch == [set |-> {"status"}, parts_cost |-> 0, services_cost |-> 0,
                status |-> status, services |-> <<>>]
      upd == UpdateOrderStmt(orders, order_masters, salaries, today, Now, id, patch)
  IN  /\ IF status = NULL \/ status \notin Statuses
           THEN /\ last' = Response("updateOrderStatus", id, status, <<>>, 400)
                /\ UNCHANGED <<orders, salaries>>
         ELSE IF ~upd.ok \/ ~upd.found
           THEN /\ last' = Response("updateOrderStatus", id, status, <<>>, 500)
                /\ UNCHANGED <<orders, salaries>>
         ELSE /\ orders' = upd.orders
              /\ salaries' = upd.salaries
              /\ last' = Response("updateOrderStatus", id, status, <<>>, 200)
      /\ UNCHANGED <<order_masters, debts, payments, today>>
      /\ UNCHANGED <<notifications, pending, users, caller, parts_sales, clock, jobs, requests>>

\* PATCH /orders/:id/masters
updateOrderMasters(id, masters) ==
  LET del == DeleteOrderMastersStmt(order_masters, id)
      mst == InsertOrderMastersStmt(orders, del, id, masters)
  IN  /\ IF Len(masters) = 0 \/ ~PercentOk(masters)
           THEN /\ last' = Response("updateOrderMasters", id, NULL, masters,
                                    400)
                /\ UNCHANGED order_masters
         ELSE IF ~mst.ok
           THEN /\ order_masters' = del
                /\ last' = Response("updateOrderMasters", id, NULL, masters,
                                    500)
         ELSE /\ order_masters' = mst.order_masters
              /\ last' = Response("updateOrderMasters", id, NULL, masters, 200)
      /\ UNCHANGED <<orders, salaries, debts, payments, today>>
      /\ UNCHANGED <<notifications, pending, users, caller, parts_sales, clock, jobs, requests>>

\* DELETE /orders/:id routed without requireRole
deleteOrderAnyRole(role, id) ==
  LET del == DeleteOrderStmt(orders, order_masters, salaries, debts,
                             payments, id)
  IN  /\ IF ~del.ok
           THEN /\ last' = Response("deleteOrder", id, NULL, <<>>, 500)
                /\ UNCHANGED <<orders, order_masters, salaries, debts,
                               payments>>
         ELSE /\ orders' = del.orders
              /\ order_masters' = del.order_masters
              /\ salaries' = del.salaries
              /\ debts' = del.debts
              /\ payments' = del.payments
              /\ last' = Response("deleteOrder", id, NULL, <<>>, 200)
      /\ UNCHANGED today
      /\ UNCHANGED <<notifications, pending, users, caller, parts_sales, clock, jobs, requests>>

\* DELETE /orders/:id behind requireRole(['director', 'admin'])
deleteOrder(role, id) ==
  LET del == DeleteOrderStmt(orders, order_masters, salaries, debts,
                             payments, id)
  IN  /\ IF role \notin {"director", "admin"}
           THEN /\ last' = Response("deleteOrder", id, NULL, <<>>, 403)
                /\ UNCHANGED <<orders, order_masters, salaries, debts,
                               payments>>
         ELSE IF ~del.ok
           THEN /\ last' = Response("deleteOrder", id, NULL, <<>>, 500)
                /\ UNCHANGED <<orders, order_masters, salaries, debts,
                               payments>>
         ELSE /\ orders' = del.orders
              /\ order_masters' = del.order_masters
              /\ salaries' = del.salaries
              /\ debts' = del.debts
              /\ payments' = del.payments
              /\ last' = Response("deleteOrder", id, NULL, <<>>, 200)
      /\ UNCHANGED today
      /\ UNCHANGED <<notifications, pending, users, caller, parts_sales, clock, jobs, requests>>

\* ----------------------------------------------------------------------
\* Errors, authentication and the routes of the orders router
\* ----------------------------------------------------------------------
\* errorHandler: the status and the code of the envelope
\* {success: false, error{code, message}} by the class of the error; an
\* error that is no AppError and carries no known name is answered 500.
errorHandler(error) ==
  IF error = "ValidationError"
    THEN [status |-> 400, code |-> "VALIDATION_ERROR"]
  ELSE IF error = "AuthenticationError"
    THEN [status |-> 401, code |-> "AUTHENTICATION_ERROR"]
  ELSE IF error = "AuthorizationError"
    THEN [status |-> 403, code |-> "INSUFFICIENT_PERMISSIONS"]
  ELSE IF error = "NotFoundError"
    THEN [status |-> 404, code |-> "NOT_FOUND"]
  ELSE IF error = "ConflictError"
    THEN [status |-> 409, code |-> "CONFLICT"]
  ELSE [status |-> 500, code |-> "INTERNAL_SERVER_ERROR"]

\* handleSupabaseError: the class of error by the code of the store's
\* error; errorHandler calls it for an error whose code starts with 'PGRST'.
handleSupabaseError(code) ==
  IF code = "PGRST116" THEN "ValidationError"
  ELSE IF code = "PGRST301" THEN "AuthorizationError"
  ELSE IF code = "PGRST302" THEN "NotFoundError"
  ELSE IF code = "23505" THEN "ConflictError"
  ELSE IF code = "23503" THEN "ValidationError"
  ELSE IF code = "23514" THEN "ValidationError"
  ELSE IF code = "42501" THEN "AuthorizationError"
  ELSE "DatabaseError"

\* The code of the envelope that goes with a status: every class of error
\* fixes both.
ErrorCode(status) ==
  LET classes == {"ValidationError", "AuthenticationError",
                  "AuthorizationError", "NotFoundError", "ConflictError",
                  "Error"}
  IN  errorHandler(CHOOSE c \in classes :
                     errorHandler(c).status = status).code

\* The Authorization header of a request: absent, of another scheme, or
\* 'Bearer ' followed by a token; a token is signed and in date ("valid"),
\* signed and out of date ("expired") or not signed with the secret
\* ("invalid"), and carries the userId and the role generateJWT wrote.
Credentials(header, token, userId, role) ==
  [header |-> header, token |-> token, userId |-> userId, role |-> role]

\* authenticateToken with the role of the token taken for the role of the
\* user, and no look at the stored row.
AuthenticatedUserFromClaims(usr, auth) ==
  IF auth.header # "bearer" \/ auth.token # "valid"
    THEN [ok |-> FALSE, error |-> "AuthenticationError", user |-> NoUser]
  ELSE [ok |-> TRUE, error |-> "none",
        user |-> [id |-> auth.userId, role |-> auth.role]]

\* authenticateToken: the header, jwt.verify, then the row of the user;
\* every failure leaves the middleware as an AuthenticationError.
AuthenticatedUser(usr, auth) ==
  IF auth.header # "bearer"
    THEN [ok |-> FALSE, error |-> "AuthenticationError", user |-> NoUser]
  ELSE IF auth.token # "valid"
    THEN [ok |-> FALSE, error |-> "AuthenticationError", user |-> NoUser]
  ELSE IF auth.userId \notin DOMAIN usr
    THEN [ok |-> FALSE, error |-> "AuthenticationError", user |-> NoUser]
  ELSE [ok |-> TRUE, error |-> "none",
        user |-> [id |-> auth.userId, role |-> usr[auth.userId]]]

\* router.use(authenticateToken): the first step of every request to the
\* orders router.  It answers through errorHandler, or sets req.user and
\* hands over to the route (code 0: no answer yet).
authenticateToken(auth) ==
  LET a == AuthenticatedUser(users, auth)
  IN  /\ caller' = a.user
      /\ last' = [op |-> "authenticateToken", id |-> NullId, status |-> NULL,
                  masters |-> <<>>,
                  code |-> IF a.ok THEN 0 ELSE errorHandler(a.error).status,
                  auth |-> auth]
      /\ UNCHANGED <<orders, order_masters, salaries, debts, payments, today,
                     notifications, pending, users, parts_sales, clock, jobs, requests>>

\* UPDATE auth.users SET role = ... WHERE id = ...; requests authenticated
\* before it have been answered.
updateUserRole(userId, role) ==
  /\ userId \in DOMAIN users
  /\ users' = [users EXCEPT ![userId] = role]
  /\ caller' = NoUser
  /\ UNCHANGED <<orders, order_masters, salaries, debts, payments, today,
                 last, notifications, pending, parts_sales, clock, jobs, requests>>

\* DELETE FROM auth.users WHERE id = ...
deleteUser(userId) ==
  /\ userId \in DOMAIN users
  /\ users' = [u \in DOMAIN users \ {userId} |-> users[u]]
  /\ caller' = NoUser
  /\ UNCHANGED <<orders, order_masters, salaries, debts, payments, today,
                 last, notifications, pending, parts_sales, clock, jobs, requests>>

\* GET /orders/:id.  The select embeds order_masters!inner and ends in
\* .single(): no row (no such order, or an order without assignments)
\* is error PGRST116, thrown as NotFoundError inside the try block, whose
\* catch throws a plain Error in its place.
getOrderById(id) ==
  /\ IF id \notin DOMAIN orders \/ MastersOf(order_masters, id) = {}
       THEN last' = Response("getOrderById", id, NULL, <<>>,
                             errorHandler("Error").status)
     ELSE last' = Response("getOrderById", id, orders[id].status, <<>>, 200)
  /\ UNCHANGED <<orders, order_masters, salaries, debts, payments, today>>
  /\ UNCHANGED <<notifications, pending, users, caller, parts_sales, clock, jobs, requests>>

\* The routes of the orders router, each behind router.use(authenticateToken):
\* the handler runs once req.user is set.
routeCreateOrder(req) == caller # NoUser /\ createOrder(req)

routeGetOrderById(id) == caller # NoUser /\ getOrderById(id)

routeUpdateOrder(id, req) == caller # NoUser /\ updateOrder(id, req)

routeUpdateOrderStatus(id, status) ==
  caller # NoUser /\ updateOrderStatus(id, status)

routeUpdateOrderMasters(id, masters) ==
  caller # NoUser /\ updateOrderMasters(id, masters)

\* requireRole(['director', 'admin']), requireOwnership('order'), deleteOrder:
\* requireOwnership lets the two roles through unexamined.
routeDeleteOrder(id) == caller # NoUser /\ deleteOrder(caller.role, id)

\* INSERT INTO salaries by an administrator or the director (policy FOR ALL
\* on salaries): master_id and order_id are foreign keys, CHECK (amount >= 0).
insertSalary(role, master_id, order_id, amount) ==
  /\ BagCardinality(salaries) < MaxSalaryRows
  /\ role \in {"admin", "director"}
  /\ master_id \in Masters
  /\ order_id \in DOMAIN orders
  /\ amount >= 0
  /\ salaries' = salaries (+) SetToBag(
                   {SalaryRow(master_id, order_id, amount, WeekStart(today))})
  /\ last' = Response("insertSalary", order_id, NULL, <<>>, 201)
  /\ UNCHANGED <<orders, order_masters, debts, payments, today>>
  /\ UNCHANGED <<notifications, pending, users, caller, parts_sales, clock, jobs, requests>>

\* INSERT INTO orders outside the API, with the defaults of the table for
\* every column but id; id = NullId leaves the identifier unset.
insertOrder(id) ==
  LET ins == InsertOrderStmt(orders, id, 0, 0, "novyj", <<>>, NULL, Now)
      op  == IF id = NullId THEN "insertOrder" ELSE "insertOrderWithId"
  IN  /\ Cardinality(DOMAIN orders) < MaxIdOrders
      /\ IF ins.ok
           THEN /\ orders' = ins.orders
                /\ last' = Response(op, ins.id, "novyj", <<>>, 201)
         ELSE /\ UNCHANGED orders
              /\ last' = Response(op, ins.id, NULL, <<>>, 500)
      /\ UNCHANGED <<order_masters, salaries, debts, payments, today>>
      /\ UNCHANGED <<notifications, pending, users, caller, parts_sales, clock, jobs, requests>>

\* INSERT INTO orders with an unset identifier, first half: the BEFORE INSERT
\* trigger computes NEW.id from the rows the statement sees; the row of
\* another session that has not finished its INSERT is not among them.
beginInsertOrder(s, parts_cost) ==
  /\ pending[s].step = "idle"
  /\ Cardinality(DOMAIN orders) < MaxIdOrders
  /\ pending' = [pending EXCEPT ![s] =
                   [id |-> generate_order_id(DOMAIN orders),
                    step |-> "computed", parts_cost |-> parts_cost]]
  /\ UNCHANGED <<orders, order_masters, salaries, debts, payments, today,
                 last, notifications, users, caller, parts_sales, clock, jobs, requests>>

\* Second half: the row, carrying the identifier the trigger gave it, goes
\* into the table under the primary key of orders.
finishInsertOrder(s) ==
  LET ins == InsertOrderStmt(orders, pending[s].id, pending[s].parts_cost, 0,
                             "novyj", <<>>, NULL, Now)
  IN  /\ pending[s].step = "computed"
      /\ pending' = [pending EXCEPT ![s] = NoRow]
      /\ IF ins.ok
           THEN /\ orders' = ins.orders
                /\ last' = Response("finishInsertOrder", ins.id, "novyj",
                                    <<>>, 201)
         ELSE /\ UNCHANGED orders
              /\ last' = Response("finishInsertOrder", ins.id, NULL, <<>>, 500)
      /\ UNCHANGED <<order_masters, salaries, debts, payments, today,
                     notifications, users, caller, parts_sales, clock, jobs, requests>>

\* INSERT INTO debts
insertDebt(id, amount, remaining, order_id) ==
  LET ins == InsertDebtStmt(orders, debts, id, amount, remaining, order_id)
  IN  /\ Cardinality(DOMAIN debts) < MaxDebts
      /\ IF ins.ok
           THEN /\ debts' = ins.debts
                /\ last' = Response("insertDebt", order_id, NULL, <<>>, 201)
         ELSE /\ UNCHANGED debts
              /\ last' = Response("insertDebt", order_id, NULL, <<>>, 500)
      /\ UNCHANGED <<orders, order_masters, salaries, payments, today>>
      /\ UNCHANGED <<notifications, pending, users, caller, parts_sales, clock, jobs, requests>>

\* INSERT INTO payments, trigger_update_debt_on_payment included
insertPayment(row) ==
  LET ins == InsertPaymentStmt(orders, debts, parts_sales, payments, row)
  IN  /\ Len(payments) < MaxPayments
      /\ IF ins.ok
           THEN /\ debts' = ins.debts
                /\ payments' = ins.payments
                /\ last' = Response("insertPayment", row.order_id, NULL, <<>>,
                                    201)
         ELSE /\ UNCHANGED <<debts, payments>>
              /\ last' = Response("insertPayment", row.order_id, NULL, <<>>,
                                  500)
      /\ UNCHANGED <<orders, order_masters, salaries, today>>
      /\ UNCHANGED <<notifications, pending, users, caller, parts_sales, clock, jobs, requests>>

\* DELETE FROM debts
deleteDebt(id) ==
  LET del == DeleteDebtStmt(debts, payments, id)
  IN  /\ id \in DOMAIN debts
      /\ IF del.ok
           THEN /\ debts' = del.debts
                /\ payments' = del.payments
                /\ last' = Response("deleteDebt", NullId, NULL, <<>>, 200)
         ELSE /\ UNCHANGED <<debts, payments>>
              /\ last' = Response("deleteDebt", NullId, NULL, <<>>, 500)
      /\ UNCHANGED <<orders, order_masters, salaries, today>>
      /\ UNCHANGED <<notifications, pending, users, caller, parts_sales, clock, jobs, requests>>

\* DELETE FROM parts_sales
deletePartsSale(id) ==
  LET del == DeletePartsSaleStmt(parts_sales, payments, id)
  IN  /\ id \in parts_sales
      /\ IF del.ok
           THEN /\ parts_sales' = del.parts_sales
                /\ payments' = del.payments
                /\ last' = Response("deletePartsSale", NullId, NULL, <<>>, 200)
         ELSE /\ UNCHANGED <<parts_sales, payments>>
              /\ last' = Response("deletePartsSale", NullId, NULL, <<>>, 500)
      /\ UNCHANGED <<orders, order_masters, salaries, debts, today>>
      /\ UNCHANGED <<notifications, pending, users, caller, clock, jobs, requests>>

\* The update of a debt with a payload of the shape UpdateDebtData: the
\* fields the payload carries are written to the row, under the CHECK
\* constraints and the foreign key of debts.
updateDebt(id, data) ==
  LET old == debts[id]
      new == [amount    |-> IF "amount" \in data.set
                              THEN data.amount ELSE old.amount,
              remaining |-> IF "remaining" \in data.set
                              THEN data.remaining ELSE old.remaining,
              order_id  |-> IF "order_id" \in data.set
                              THEN data.order_id ELSE old.order_id]
  IN  /\ id \in DOMAIN debts
      /\ IF \/ new.order_id # NullId /\ new.order_id \notin DOMAIN orders
            \/ ~(new.amount > 0) \/ ~(new.remaining >= 0)
           THEN /\ UNCHANGED debts
                /\ last' = Response("updateDebt", new.order_id, NULL, <<>>, 500)
         ELSE /\ debts' = [debts EXCEPT ![id] = new]
              /\ last' = Response("updateDebt", new.order_id, NULL, <<>>, 200)
      /\ UNCHANGED <<orders, order_masters, salaries, payments, today>>
      /\ UNCHANGED <<notifications, pending, users, caller, parts_sales, clock, jobs, requests>>

\* The calendar moves on to the next day.
AdvanceDay ==
  /\ today < MaxDay
  /\ today' = today + 1
  /\ UNCHANGED <<orders, order_masters, salaries, debts, payments, last>>
  /\ UNCHANGED <<notifications, pending, users, caller, parts_sales, clock, jobs, requests>>

\* ----------------------------------------------------------------------
\* Requests
\* ----------------------------------------------------------------------
CreateReq(services, masters, parts_cost, status) ==
  [services |-> services, masters |-> masters, parts_cost |-> parts_cost,
   status |-> status]

\* UpdateOrderData: every property is optional; a property outside set is
\* absent from the body (its value in the record is a placeholder), and no
\* masters are carried when the list is empty.
UpdateReq(fields, services, parts_cost, status, masters) ==
  [set        |-> fields,
   services   |-> IF "services" \in fields THEN services ELSE <<>>,
   parts_cost |-> IF "parts_cost" \in fields THEN parts_cost ELSE 0,
   status     |-> IF "status" \in fields THEN status ELSE NULL,
   masters    |-> masters]

DefaultServices == <<[price |-> 30000, qty |-> 2]>>

DefaultMasters == <<[master_id |-> "m1", percent |-> 10000]>>

\* Orders of total 1000.00 with every list of masters, created new or
\* already handed over, and one request without services.
CreateOrderInputs ==
  { CreateReq(DefaultServices, ms, pc, st) :
      ms \in MasterLists \cup {<<>>}, pc \in {40000},
      st \in {"novyj", "vydan"} }
  \cup { CreateReq(<<>>, DefaultMasters, 40000, "novyj") }

\* Updates of the status, of the masters, of both, or of nothing.
UpdateOrderInputs ==
  { UpdateReq(fields, <<>>, 0, st, ms) :
      fields \in SUBSET {"status"}, st \in StatusInputs,
      ms \in MasterLists \cup {<<>>} }

\* Orders and updates that vary the two cost components.
CreateOrderCostInputs ==
  { CreateReq(sv, DefaultMasters, pc, "novyj") :
      sv \in ServiceLists, pc \in PartsCostInputs }

UpdateOrderCostInputs ==
  { UpdateReq(fields, sv, pc, NULL, <<>>) :
      fields \in SUBSET {"services", "parts_cost"},
      sv \in ServiceLists \cup {<<>>}, pc \in PartsCostInputs }

\* A status outside the nine tokens, and the absent status.
StatusRequestInputs == StatusInputs \cup {NULL, "otmenen"}

\* ----------------------------------------------------------------------
\* Spec: the order API on an empty database
\* ----------------------------------------------------------------------
Init ==
  /\ orders = << >>
  /\ order_masters = {}
  /\ salaries = EmptyBag
  /\ debts = << >>
  /\ payments = << >>
  /\ today = StartDay
  /\ last = Response("none", NullId, NULL, <<>>, 0)
  /\ notifications = EmptyBag
  /\ pending = [s \in Sessions |-> NoRow]
  /\ users = InitialUsers
  /\ caller = NoUser
  /\ parts_sales = PartsSales
  /\ clock = FirstPhase
  /\ jobs = [r \in Runners |-> NoRun]
  /\ requests = [h \in Handlers |-> NoRequest]

Next ==
  \/ \E req \in CreateOrderInputs : createOrder(req)
  \/ \E id \in OrderIdInputs, req \in UpdateOrderInputs : updateOrder(id, req)
  \/ \E id \in OrderIdInputs, status \in StatusRequestInputs :
       updateOrderStatus(id, status)
  \/ \E id \in OrderIdInputs, masters \in MasterLists \cup {<<>>} :
       updateOrderMasters(id, masters)
  \/ \E role \in Roles, id \in OrderIdInputs : deleteOrder(role, id)

Spec == Init /\ [][Next]_vars

\* ----------------------------------------------------------------------
\* SpecCost: the requests that write the cost columns
\* ----------------------------------------------------------------------
NextCost ==
  \/ \E req \in CreateOrderCostInputs : createOrder(req)
  \/ \E id \in OrderIdInputs, req \in UpdateOrderCostInputs :
       updateOrder(id, req)
  \/ \E id \in OrderIdInputs, status \in StatusInputs :
       updateOrderStatus(id, status)

SpecCost == Init /\ [][NextCost]_vars

\* ----------------------------------------------------------------------
\* Properties
\* ----------------------------------------------------------------------
\* The step handled a request: the response changed.
Handled(ops) == last' # last /\ last'.op \in ops

Succeeded(code) == code \in {200, 201}

\* Copies of per-order salary rows stored for one (master, order) pair.
RECURSIVE CopiesOfRows(_, _)
CopiesOfRows(sal, rows) ==
  IF rows = {} THEN 0
  ELSE LET r == CHOOSE x \in rows : TRUE
       IN  CopiesIn(r, sal) + CopiesOfRows(sal, rows \ {r})

PerOrderCount(sal, master_id, order_id) ==
  CopiesOfRows(sal, PerOrderRows(sal, master_id, order_id))

\* Sum of the percentages assigned to an order.
RECURSIVE SumPercent(_)
SumPercent(rows) ==
  IF rows = {} THEN 0
  ELSE LET r == CHOOSE x \in rows : TRUE
       IN  r.percent + SumPercent(rows \ {r})

\* C1: in every reachable state, every stored order has
\* total = parts_cost + services_cost, whatever createOrder, updateOrder and
\* updateOrderStatus did before.
C1_TotalIsSum ==
  \A id \in DOMAIN orders :
    orders[id].total = orders[id].parts_cost + orders[id].services_cost

\* An order whose parts cost and services were both rewritten by updateOrder
\* (created 400.00 + 600.00 or 400.00 + 200.00, now 0 + 200.00 with two
\* line items).
C1_Witness ==
  /\ last.op = "updateOrder" /\ last.code = 200
  /\ last.id \in DOMAIN orders
  /\ orders[last.id].parts_cost = 0
  /\ Len(orders[last.id].services) = 2
  /\ orders[last.id].total = 20000

\* C2: when an update moves a stored order from a non-terminal status to
\* 'vydan' or 'zakryt', the update succeeds, the order carries the new
\* status and, for every master assigned to it at that moment, salaries
\* holds a row for (master, order) with amount = total * percent / 100 and
\* week_period = the start of the current week.
C2_TerminalUpdateRecordsSalaries ==
  [][ \A id \in DOMAIN orders :
        ( /\ Handled({"updateOrder", "updateOrderStatus"})
          /\ last'.id = id
          /\ last'.status \in TerminalStatuses
          /\ orders[id].status \notin TerminalStatuses )
        => /\ Succeeded(last'.code)
           /\ id \in DOMAIN orders' /\ orders'[id].status = last'.status
           /\ \A a \in MastersOf(order_masters, id) :
                \E r \in BagToSet(salaries') :
                  /\ r.master_id = a.master_id /\ r.order_id = id
                  /\ r.amount * PercentTotal = orders'[id].total * a.percent
                  /\ r.week_period = WeekStart(today) ]_vars

C4_SalariesChangeOnlyOnTerminalEntry ==
  [][ ( /\ DOMAIN orders' = DOMAIN orders
        /\ ~ \E id \in DOMAIN orders :
               /\ orders[id].status \notin TerminalStatuses
               /\ orders'[id].status \in TerminalStatuses )
      => salaries' = salaries ]_vars

\* An order with assigned masters that an update just moved from one
\* terminal status to the other: it was created 'vydan' and is 'zakryt'.
C4_Witness ==
  /\ last.op \in {"updateOrder", "updateOrderStatus"}
  /\ last.code = 200 /\ last.status = "zakryt"
  /\ last.id \in DOMAIN orders
  /\ orders[last.id].status = "zakryt"
  /\ MastersOf(order_masters, last.id) # {}
  /\ salaries = EmptyBag

\* C6: createOrder, updateOrder carrying masters and updateOrderMasters, on
\* a stored order, succeed only if the percentages sum to 100 within 0.01;
\* otherwise the request fails with a validation error (400) and orders
\* and order_masters stay as they were.
C6_PercentSumValidated ==
  [][ ( /\ Handled({"createOrder", "updateOrder", "updateOrderMasters"})
        /\ last'.op # "createOrder" => last'.id \in DOMAIN orders
        /\ Len(last'.masters) > 0
        /\ ~PercentOk(last'.masters) )
      => /\ last'.code = 400
         /\ UNCHANGED <<orders, order_masters>> ]_vars

\* C7: once a request has completed, the percentages assigned to every
\* stored order sum to 100 within 0.01.
C7_StoredPercentSum ==
  \A id \in DOMAIN orders :
    Abs(SumPercent(MastersOf(order_masters, id)) - PercentTotal)
      <= PercentTolerance

\* ----------------------------------------------------------------------
\* SpecSalaryDml: the order API next to salary rows written directly
\* ----------------------------------------------------------------------
CreateOrderDmlInputs ==
  { CreateReq(DefaultServices, DefaultMasters, pc, st) :
      pc \in {40000}, st \in {"novyj", "vydan"} }

UpdateOrderDmlInputs ==
  { UpdateReq({"parts_cost"}, <<>>, pc, NULL, <<>>) : pc \in {0} }
  \cup { UpdateReq({"services"}, sv, 0, NULL, <<>>) :
           sv \in ServiceLists \ {DefaultServices} }
  \cup { UpdateReq({"status"}, <<>>, 0, st, <<>>) : st \in {"novyj", "vydan"} }
  \cup { UpdateReq({}, <<>>, 0, NULL, ms) :
           ms \in { m \in MasterLists : Len(m) = 2 /\ PercentOk(m)
                                          /\ m[1].master_id # m[2].master_id } }

NextSalaryDml ==
  \/ \E req \in CreateOrderDmlInputs : createOrder(req)
  \/ \E id \in OrderIdInputs, req \in UpdateOrderDmlInputs :
       updateOrder(id, req)
  \/ \E id \in OrderIdInputs : deleteOrder("admin", id)
  \/ \E id \in OrderIdInputs, amount \in {60000} :
       insertSalary("admin", "m1", id, amount)
  \/ AdvanceDay

SpecSalaryDml == Init /\ [][NextSalaryDml]_vars

\* C5: a per-order salary row, once stored, keeps its amount under every
\* later order operation (a change of the parts cost, of the services, of
\* the assignments, of the status): as long as its order is stored, the
\* row stays in salaries as it was written.
C5_RecordedAmountIsKept ==
  [][ \A r \in BagToSet(salaries) :
        r.order_id \in DOMAIN orders'
          => CopiesIn(r, salaries') >= CopiesIn(r, salaries) ]_vars

\* A recorded row of an order whose total was changed afterwards by a
\* successful updateOrder: the amount no longer equals total * percent / 100
\* for the master's current percentage.
C5_Witness ==
  /\ last.op = "updateOrder" /\ last.code = 200
  /\ \E r \in BagToSet(salaries) :
       /\ r.order_id = last.id
       /\ r.order_id \in DOMAIN orders
       /\ \E a \in MastersOf(order_masters, r.order_id) :
            /\ a.master_id = r.master_id
            /\ r.amount * PercentTotal # orders[r.order_id].total * a.percent

\* ----------------------------------------------------------------------
\* SpecDebt: debts and the payments that reference them
\* ----------------------------------------------------------------------
PaymentRow(order_id, parts_sale_id, debt_id, amount) ==
  [order_id |-> order_id, parts_sale_id |-> parts_sale_id,
   debt_id |-> debt_id, amount |-> amount]

DebtAmountInputs == {50000}

PaymentAmountInputs == MoneyInputs \ DebtAmountInputs

PaymentInputs ==
  { PaymentRow(NullId, NULL, d, a) : d \in DebtIds, a \in PaymentAmountInputs }
  \cup { PaymentRow(<<0, 0, 1>>, NULL, NULL, 20000),
         PaymentRow(<<0, 0, 1>>, NULL, "d1", 20000),
         PaymentRow(NullId, "ps1", NULL, 20000),
         PaymentRow(NullId, NULL, NULL, 20000) }

DebtInputs ==
  { [id |-> d, amount |-> a, remaining |-> a, order_id |-> o] :
      d \in DebtIds, a \in DebtAmountInputs, o \in {NullId, <<0, 0, 1>>} }
  \cup { [id |-> "d1", amount |-> 0, remaining |-> 0, order_id |-> NullId] }

NextDebt ==
  \/ \E req \in { CreateReq(DefaultServices, DefaultMasters, 40000, "novyj") } :
       createOrder(req)
  \/ \E id \in OrderIdInputs : updateOrderStatus(id, "v_rabote")
  \/ \E id \in OrderIdInputs : deleteOrder("director", id)
  \/ \E d \in DebtInputs : insertDebt(d.id, d.amount, d.remaining, d.order_id)
  \/ \E row \in PaymentInputs : insertPayment(row)

SpecDebt == Init /\ [][NextDebt]_vars

\* C8: the insertion of a payment of amount a that references debt d sets
\* d.remaining to max(0, d.remaining - a) (500 paid with 700 leaves 0, 500
\* paid with 200 leaves 300), and no reachable state holds a debt with a
\* negative remaining balance.
C8_PaymentReducesDebt ==
  /\ [](\A d \in DOMAIN debts : debts[d].remaining >= 0)
  /\ [][ \A d \in DOMAIN debts :
           ( /\ Len(payments') = Len(payments) + 1
             /\ payments'[Len(payments')].debt_id = d )
           => /\ d \in DOMAIN debts'
              /\ debts'[d].remaining =
                   IF debts[d].remaining - payments'[Len(payments')].amount > 0
                     THEN debts[d].remaining - payments'[Len(payments')].amount
                   ELSE 0 ]_vars

\* A debt of 500.00 that received a payment of 200.00 and then one of
\* 700.00: the second payment exceeds what remained and the balance is 0.
C8_Witness ==
  /\ Len(payments) = 2
  /\ payments[1] = PaymentRow(NullId, NULL, "d1", 20000)
  /\ payments[2] = PaymentRow(NullId, NULL, "d1", 70000)
  /\ "d1" \in DOMAIN debts
  /\ debts["d1"].amount = 50000
  /\ debts["d1"].remaining = 0

\* ----------------------------------------------------------------------
\* SpecDebtApi: SpecDebt and the update of a debt
\* ----------------------------------------------------------------------
UpdateDebtInputs ==
  { [set |-> {"remaining"}, amount |-> 0, remaining |-> r,
     order_id |-> NullId] : r \in {0, 50000} }
  \cup { [set |-> {"amount"}, amount |-> 70000, remaining |-> 0,
          order_id |-> NullId],
         [set |-> {"order_id"}, amount |-> 0, remaining |-> 0,
          order_id |-> <<0, 0, 1>>] }

NextDebtApi ==
  \/ \E req \in { CreateReq(DefaultServices, DefaultMasters, 40000, "novyj") } :
       createOrder(req)
  \/ \E id \in OrderIdInputs : updateOrderStatus(id, "v_rabote")
  \/ \E id \in OrderIdInputs : deleteOrder("director", id)
  \/ \E d \in { x \in DebtInputs : x.id = "d1" /\ x.order_id = NullId } :
       insertDebt(d.id, d.amount, d.remaining, d.order_id)
  \/ \E row \in { r \in PaymentInputs :
                    r.amount = 20000 /\ r.debt_id # "d2" } : insertPayment(row)
  \/ \E d \in DebtIds, data \in UpdateDebtInputs :
       updateDebt(d, data)

SpecDebtApi == Init /\ [][NextDebtApi]_vars

ExplicitIdInputs == { <<7>>, <<9, 9, 8>>, <<1, 0, 0, 0>> }

NextId ==
  \/ insertOrder(NullId)
  \/ \E id \in ExplicitIdInputs : insertOrder(id)
  \/ \E id \in ExplicitIdInputs \cup OrderIdInputs : deleteOrder("admin", id)

SpecId == Init /\ [][NextId]_vars

\* The greatest numeric suffix among the identifiers.
MaxSuffix(ids) ==
  CHOOSE n \in { DigitsToInt(x) : x \in ids } :
    \A y \in ids : DigitsToInt(y) <= n

\* Zero padding to at least width digits: longer numbers keep their digits.
PadAtLeast(ds, width) ==
  IF Len(ds) >= width THEN ds
  ELSE [i \in 1..width |-> IF i <= width - Len(ds) THEN 0
                           ELSE ds[i - (width - Len(ds))]]

\* C10: the insertion of an order with an unset identifier stores it under
\* 'ZA' followed by 1 + the greatest numeric suffix among the stored
\* identifiers, zero-padded to at least 3 digits ('ZA001' when the table is
\* empty), also when the suffixes have different lengths, as beyond 999.
C10_NextIdIsMaxSuffixPlusOne ==
  [][ Handled({"insertOrder"})
      => LET expected ==
               IF DOMAIN orders = {} THEN <<0, 0, 1>>
               ELSE PadAtLeast(IntToDigits(MaxSuffix(DOMAIN orders) + 1),
                               IdPadWidth)
         IN  /\ last'.code = 201
             /\ last'.id = expected
             /\ DOMAIN orders' = DOMAIN orders \cup {expected} ]_vars

\* ----------------------------------------------------------------------
\* SpecIdRace: two sessions inserting orders with unset identifiers
\* ----------------------------------------------------------------------
NextIdRace ==
  \/ \E s \in Sessions, pc \in PartsCostInputs : beginInsertOrder(s, pc)
  \/ \E s \in Sessions : finishInsertOrder(s)

SpecIdRace == Init /\ [][NextIdRace]_vars

\* C11: under every interleaving of two insertions of orders, a stored
\* order is never overwritten, and an insertion whose computed identifier
\* is already stored (the other insertion computed the same suffix and went
\* first) stores nothing and is refused.
C11_NoOverwriteOnRace ==
  [][ /\ \A id \in DOMAIN orders :
           id \in DOMAIN orders' /\ orders'[id] = orders[id]
      /\ \A s \in Sessions :
           ( /\ pending[s].step = "computed"
             /\ pending'[s].step = "idle"
             /\ pending[s].id \in DOMAIN orders )
           => /\ orders' = orders
              /\ last'.code = 500 ]_vars

\* Two insertions computed the same identifier; the first one stored its
\* row, with parts cost 400.00, the second one was just refused and the
\* stored row is still there.
C11_Witness ==
  /\ last.op = "finishInsertOrder" /\ last.code = 500
  /\ last.id \in DOMAIN orders
  /\ orders[last.id].parts_cost = 40000
  /\ \A s \in Sessions : pending[s].step = "idle"

\* ----------------------------------------------------------------------
\* SpecAuth: the orders router behind authenticateToken
\* ----------------------------------------------------------------------
CredentialInputs ==
  { Credentials("none", NULL, NULL, NULL),
    Credentials("basic", NULL, NULL, NULL),
    Credentials("bearer", "expired", "a1", "admin"),
    Credentials("bearer", "invalid", "a1", "admin") }
  \cup { Credentials("bearer", "valid", u, r) :
           u \in {"m1", "m2", "a1", "u9"}, r \in {"master", "admin"} }

OrderOps ==
  {"createOrder", "getOrderById", "updateOrder", "updateOrderStatus",
   "updateOrderMasters", "deleteOrder"}

NextAuth ==
  \/ \E auth \in CredentialInputs : authenticateToken(auth)
  \/ \E req \in { CreateReq(DefaultServices, DefaultMasters, 40000, "novyj") } :
       routeCreateOrder(req)
  \/ \E id \in OrderIdInputs : routeGetOrderById(id)
  \/ \E id \in OrderIdInputs,
        req \in { UpdateReq({"parts_cost"}, <<>>, 0, NULL, <<>>) } :
       routeUpdateOrder(id, req)
  \/ \E id \in OrderIdInputs : routeUpdateOrderStatus(id, "v_rabote")
  \/ \E id \in OrderIdInputs,
        masters \in { <<[master_id |-> "m2", percent |-> PercentTotal]>> } :
       routeUpdateOrderMasters(id, masters)
  \/ \E id \in OrderIdInputs : routeDeleteOrder(id)
  \/ \E role \in {"master", "admin"} : updateUserRole("m2", role)
  \/ deleteUser("m2")

SpecAuth == Init /\ [][NextAuth]_vars

\* The tables of the business data.
tables == <<orders, order_masters, salaries, debts, payments, notifications>>

\* The user is neither assigned to the stored order nor its creator.
Foreign(user, id) ==
  /\ \A a \in MastersOf(order_masters, id) : a.master_id # user.id
  /\ orders[id].created_by # user.id

\* C12: a request of a user with role 'master' to read, update or change
\* the status or the masters of a stored order the user is neither
\* assigned to nor created is answered 403 and the order and its
\* assignments stay as they were.
C12_ForeignMasterRejected ==
  [][ ( /\ Handled({"getOrderById", "updateOrder", "updateOrderStatus",
                    "updateOrderMasters"})
        /\ caller.role = "master"
        /\ last'.id \in DOMAIN orders
        /\ Foreign(caller, last'.id) )
      => /\ last'.code = 403
         /\ UNCHANGED <<orders, order_masters>> ]_vars

\* C13: DELETE /orders/:id removes an order only for a user whose role is
\* 'admin' or 'director'; for any other role, the user being assigned to
\* the order or not, the answer is 403 INSUFFICIENT_PERMISSIONS and the
\* order and its assignments remain stored.
C13_DeleteOnlyByAdminOrDirector ==
  [][ /\ (DOMAIN orders \ DOMAIN orders' # {})
           => caller.role \in {"admin", "director"}
      /\ ( /\ Handled({"deleteOrder"})
           /\ caller.role \notin {"admin", "director"} )
         => /\ last'.code = 403
            /\ ErrorCode(last'.code) = "INSUFFICIENT_PERMISSIONS"
            /\ UNCHANGED <<orders, order_masters>> ]_vars

\* A master assigned to a stored order asked for its deletion and was
\* answered 403.
C13_Witness ==
  /\ last.op = "deleteOrder" /\ last.code = 403
  /\ caller.role = "master"
  /\ last.id \in DOMAIN orders
  /\ \E a \in MastersOf(order_masters, last.id) : a.master_id = caller.id

\* C14: a handler of the orders router runs only for a request that
\* authenticateToken let through, which it does exactly for a Bearer header
\* with a valid token of a stored user; every other request is answered
\* 401 AUTHENTICATION_ERROR and changes no table; req.user carries the role
\* stored for the user, whatever role the token holds.
C14_AuthenticatedOnly ==
  [][ /\ Handled(OrderOps) => caller # NoUser
      /\ Handled({"authenticateToken"})
           => LET auth == last'.auth
                  good == /\ auth.header = "bearer"
                          /\ auth.token = "valid"
                          /\ auth.userId \in DOMAIN users
              IN  /\ UNCHANGED tables
                  /\ good => /\ last'.code # 401
                             /\ caller' = [id |-> auth.userId,
                                           role |-> users[auth.userId]]
                  /\ ~good => /\ last'.code = 401
                              /\ ErrorCode(last'.code) = "AUTHENTICATION_ERROR"
                              /\ caller' = NoUser
      /\ caller' # NoUser
           => /\ caller'.id \in DOMAIN users'
              /\ caller'.role = users'[caller'.id] ]_vars

\* User m2, stored as a master, was let through with a valid token that
\* names the role 'admin': req.user carries the role 'master'.
C14_Witness ==
  /\ last.op = "authenticateToken" /\ last.code = 0
  /\ last.auth = Credentials("bearer", "valid", "m2", "admin")
  /\ "m2" \in DOMAIN users /\ users["m2"] = "master"
  /\ caller = [id |-> "m2", role |-> "master"]
  /\ DOMAIN orders # {}

\* C15: a request of getOrderById, updateOrder or updateOrderStatus for an
\* identifier that names no stored order is answered 404 with the code
\* NOT_FOUND and changes no table.
C15_MissingOrderIsNotFound ==
  [][ ( /\ Handled({"getOrderById", "updateOrder", "updateOrderStatus"})
        /\ last'.id \notin DOMAIN orders )
      => /\ last'.code = 404
         /\ ErrorCode(last'.code) = "NOT_FOUND"
         /\ UNCHANGED tables ]_vars

\* C16: when the insertion of the assignment rows of a request that passed
\* the validation of the handler violates a constraint of order_masters,
\* the answer is the one handleSupabaseError gives for the code of the
\* violation: 409 CONFLICT for a unique violation (23505), 400 for a
\* foreign-key (23503) or a check (23514) violation.
C16_ConstraintViolationsClassified ==
  [][ ( /\ Handled({"createOrder", "updateOrderMasters"})
        /\ Len(last'.masters) > 0 /\ PercentOk(last'.masters)
        /\ last'.id \in DOMAIN orders' )
      => LET mst == InsertOrderMastersStmt(
                      orders', DeleteOrderMastersStmt(order_masters, last'.id),
                      last'.id, last'.masters)
             expected == errorHandler(handleSupabaseError(mst.code))
         IN  ~mst.ok => /\ mst.code \in {"23505", "23503", "23514"}
                        /\ last'.code = expected.status
                        /\ expected.status \in {400, 409} ]_vars

\* ----------------------------------------------------------------------
\* SpecList: GET /orders, the paginated list
\* ----------------------------------------------------------------------
\* The rows of the data query of getOrders: the embedding
\* order_masters!inner keeps the orders with at least one assignment row,
\* .eq('status', status) is applied when the request names a status.  The
\* filters on client_id, created_at and the search text address columns
\* that are not among the columns of OrderRow and are left unset.
ListedOrders(ord, om, status) ==
  { id \in DOMAIN ord :
      /\ MastersOf(om, id) # {}
      /\ (status # NULL => ord[id].status = status) }

\* .order('created_at', {ascending: false}).  The identifiers that
\* generate_order_id hands out grow with the time of creation, so the
\* newest order is the one with the greatest suffix.
RECURSIVE OrderByCreatedAtDesc(_)
OrderByCreatedAtDesc(ids) ==
  IF ids = {} THEN << >>
  ELSE LET newest == CHOOSE x \in ids :
                       \A y \in ids : DigitsToInt(y) <= DigitsToInt(x)
       IN  <<newest>> \o OrderByCreatedAtDesc(ids \ {newest})

\* .range(from, to) of the query builder: the rows at the zero-based
\* positions from..to, both included; no row when from > to.
Range(rows, from, to) ==
  IF from > to \/ from >= Len(rows) THEN << >>
  ELSE SubSeq(rows, from + 1, IF to + 1 < Len(rows) THEN to + 1 ELSE Len(rows))

\* The items of one page: offset = (page - 1) * limit, then
\* .range(offset, limit).
PageItems(ord, om, page, limit, status) ==
  LET offset == (page - 1) * limit
  IN  Range(OrderByCreatedAtDesc(ListedOrders(ord, om, status)), offset, limit)

\* The count query of getOrders: select('*', {count: 'exact'}) on orders,
\* with no embedding and no filter.
CountOrders(ord) == Cardinality(DOMAIN ord)

\* GET /orders?page=&limit=&status=.  A range whose first position lies
\* beyond its last one asks the store for a negative number of rows; the
\* store may answer that with an error or with no rows.
getOrders(page, limit, status) ==
  LET offset == (page - 1) * limit
      count  == CountOrders(orders)
  IN  /\ \E failed \in (IF offset > limit THEN {TRUE, FALSE} ELSE {FALSE}) :
           last' = [op |-> "getOrders", id |-> NullId, status |-> status,
                    masters |-> << >>,
                    code |-> IF failed THEN errorHandler("Error").status
                             ELSE 200,
                    page |-> page, limit |-> limit,
                    items |-> IF failed THEN << >>
                              ELSE PageItems(orders, order_masters, page,
                                             limit, status),
                    total |-> count,
                    pages |-> (count + limit - 1) \div limit]
      /\ UNCHANGED <<orders, order_masters, salaries, debts, payments, today>>
      /\ UNCHANGED <<notifications, pending, users, caller, parts_sales, clock, jobs, requests>>

ListIdInputs == { <<0, 0, 1>>, <<0, 0, 2>>, <<0, 0, 3>> }

PageInputs == {1, 2, 3}

LimitInputs == {1, 2}

NextList ==
  \/ insertOrder(NullId)
  \/ \E id \in ListIdInputs : updateOrderMasters(id, DefaultMasters)
  \/ \E id \in ListIdInputs : updateOrderStatus(id, "v_rabote")
  \/ \E page \in PageInputs, limit \in LimitInputs,
        status \in {NULL, "v_rabote"} : getOrders(page, limit, status)

SpecList == Init /\ [][NextList]_vars

\* The items of the pages 1..pages of one listing, one page after the
\* other.
RECURSIVE PagesUpTo(_, _, _, _, _)
PagesUpTo(ord, om, pages, limit, status) ==
  IF pages = 0 THEN << >>
  ELSE PagesUpTo(ord, om, pages - 1, limit, status)
         \o PageItems(ord, om, pages, limit, status)

\* C17: a page of getOrders holds at most limit items, pagination.total is
\* the number of orders that match the request, pagination.pages is
\* ceil(total / limit), and the pages 1..pages taken together hold every
\* matching order exactly once.
C17_PagesPartitionResult ==
  [][ ( Handled({"getOrders"}) /\ last'.code = 200 )
      => LET L     == last'.limit
             match == ListedOrders(orders, order_masters, last'.status)
             all   == PagesUpTo(orders, order_masters, last'.pages, L,
                                last'.status)
         IN  /\ Len(last'.items) <= L
             /\ last'.total = Cardinality(match)
             /\ last'.pages = (last'.total + L - 1) \div L
             /\ \A id \in match :
                  Cardinality({ i \in 1..Len(all) : all[i] = id }) = 1
             /\ \A i \in 1..Len(all) : all[i] \in match ]_vars

RECURSIVE LineItemsTotal(_)
LineItemsTotal(services) ==
  IF services = << >> THEN 0
  ELSE services[1].price * services[1].qty + LineItemsTotal(Tail(services))

ColumnType(column) ==
  IF column = "order_masters.id" THEN "uuid"
  ELSE IF column = "order_masters.master_id" THEN "uuid"
  ELSE "varchar"

\* Postgres resolves `a = b` to an operator for the two types; uuid has an
\* equality operator with uuid only, and no implicit cast to or from a
\* character type.
EqualityOperatorExists(left, right) ==
  \/ left = right
  \/ {left, right} \subseteq {"varchar", "text"}

\* The inserted rows as the trigger sees them: each with the uuid that
\* gen_random_uuid() gave to its id column.
InsertedRows(id, masters) ==
  { [id |-> [uuid |-> i], order_id |-> id,
     master_id |-> masters[i].master_id, percent |-> masters[i].percent] :
      i \in 1..Len(masters) }

\* The notifications one run of the loop of create_order_notification
\* inserts for the row NEW: one for every row of order_masters selected by
\* WHERE order_id = NEW.id.
NotificationsFor(NEW_row, rows) ==
  LET selected == { r \in rows : r.order_id = NEW_row.id }
  IN  { [user_id |-> r.master_id, type |-> "order_assigned",
         entity_id |-> NEW_row.id, entity_type |-> "order",
         trigger_row |-> NEW_row.id] : r \in selected }

\* create_order_notification, FOR EACH ROW of the statement: the query of
\* the loop is planned when the function first runs, and raises 42883
\* (operator does not exist: character varying = uuid).
create_order_notification(inserted, rows, notif) ==
  IF ~EqualityOperatorExists(ColumnType("order_masters.order_id"),
                             ColumnType("order_masters.id"))
    THEN [ok |-> FALSE, code |-> "42883", notifications |-> notif]
  ELSE [ok |-> TRUE, code |-> "OK",
        notifications |->
          notif (+) SetToBag(UNION { NotificationsFor(n, rows) :
                                       n \in inserted })]

\* INSERT INTO order_masters (order_id, master_id, percent) VALUES ...:
\* the constraints of the table, then the trigger for each inserted row; an
\* error of the trigger aborts the statement.
InsertOrderMastersWithTrigger(ord, om, notif, id, masters) ==
  LET mst == InsertOrderMastersStmt(ord, om, id, masters)
      trg == create_order_notification(InsertedRows(id, masters),
                                       InsertedRows(id, masters), notif)
  IN  IF ~mst.ok
        THEN [ok |-> FALSE, code |-> mst.code, order_masters |-> om,
              notifications |-> notif]
      ELSE IF ~trg.ok
        THEN [ok |-> FALSE, code |-> trg.code, order_masters |-> om,
              notifications |-> notif]
      ELSE [ok |-> TRUE, code |-> "OK", order_masters |-> mst.order_masters,
            notifications |-> trg.notifications]

\* The insertion of the assignment rows that createOrder, updateOrder and
\* updateOrderMasters issue, answered 201 when the statement succeeded and
\* 500 when it raised.
insertOrderMasters(id, masters) ==
  LET st == InsertOrderMastersWithTrigger(orders, order_masters,
                                          notifications, id, masters)
  IN  /\ Len(masters) > 0
      /\ order_masters' = st.order_masters
      /\ notifications' = st.notifications
      /\ last' = Response("insertOrderMasters", id, NULL, masters,
                          IF st.ok THEN 201 ELSE 500)
      /\ UNCHANGED <<orders, salaries, debts, payments, today, pending,
                     users, caller, parts_sales, clock, jobs, requests>>

NextNotify ==
  \/ insertOrder(NullId)
  \/ \E id \in ListIdInputs, masters \in MasterLists :
       insertOrderMasters(id, masters)
  \/ \E id \in ListIdInputs : deleteOrder("admin", id)

SpecNotify == Init /\ [][NextNotify]_vars

\* C20: whenever assignment rows that satisfy the constraints of
\* order_masters are inserted for a stored order, the insertion succeeds,
\* the rows are stored, and every master then assigned to the order has a
\* notification of type 'order_assigned' whose entity_id is the identifier
\* of the order.
C20_AssignedMastersNotified ==
  [][ ( /\ Handled({"insertOrderMasters"})
        /\ InsertOrderMastersStmt(orders, order_masters, last'.id,
                                  last'.masters).ok )
      => /\ last'.code = 201
         /\ MastersOf(order_masters', last'.id) # {}
         /\ \A a \in MastersOf(order_masters', last'.id) :
              \E n \in BagToSet(notifications') :
                /\ n.user_id = a.master_id
                /\ n.type = "order_assigned"
                /\ n.entity_id = last'.id ]_vars

\* ----------------------------------------------------------------------
\* SpecPayRef: payments and the deletion of the rows they reference
\* ----------------------------------------------------------------------
\* Payments of 200.00 with every combination of the three references, the
\* empty one included.
PaymentRefInputs ==
  { PaymentRow(o, p, d, 20000) :
      o \in {NullId, <<0, 0, 1>>}, p \in {NULL, "ps1"}, d \in {NULL, "d1"} }

NextPayRef ==
  \/ \E req \in { CreateReq(DefaultServices, DefaultMasters, 40000, "novyj") } :
       createOrder(req)
  \/ \E id \in OrderIdInputs : deleteOrder("director", id)
  \/ insertDebt("d1", 50000, 50000, NullId)
  \/ \E row \in PaymentRefInputs : insertPayment(row)
  \/ \E d \in DebtIds : deleteDebt(d)
  \/ \E p \in PartsSales : deletePartsSale(p)

SpecPayRef == Init /\ [][NextPayRef]_vars

\* C21: in every reachable state every stored payment references an order,
\* a parts sale or a debt: after the insertions of payments and after the
\* deletions of orders, parts sales and debts that payments reference.
C21_PaymentKeepsAReference ==
  \A i \in 1..Len(payments) :
    \/ payments[i].order_id # NullId
    \/ payments[i].parts_sale_id # NULL
    \/ payments[i].debt_id # NULL

\* A payment was stored with a reference to order ZA001 and to debt d1;
\* the order has been deleted since, and the payment references the debt
\* alone.
C21_Witness ==
  /\ last.op = "deleteOrder" /\ last.code = 200
  /\ last.id = <<0, 0, 1>>
  /\ <<0, 0, 1>> \notin DOMAIN orders
  /\ \E i \in 1..Len(payments) :
       payments[i] = PaymentRow(NullId, NULL, "d1", 20000)
  /\ "d1" \in DOMAIN debts /\ debts["d1"].remaining = 30000

\* ----------------------------------------------------------------------
\* The weekly salary job (utils/cron.ts)
\* ----------------------------------------------------------------------
\* A run of the job takes place at the end of the current time of day:
\* every row stored so far was written before the run, and the clock
\* then moves on, so that every later statement is stamped after it.
\* Dates are read in one time zone (the server runs on UTC).

\* Date.getDay(): 0 on a Sunday; day 0 of the calendar is a Monday.
getDay(day) == (day + 1) % 7

\* weekStart.setDate(weekStart.getDate() - weekStart.getDay()): the day of
\* the last Sunday; the time of day of weekStart stays that of the run.
WeekStartDay(day) == day - getDay(day)

\* .gte('updated_at', weekStart).lte('updated_at', new Date()) for a row
\* stored before the run: the row was stamped after the Sunday, or on the
\* Sunday at a later time of day than that of the run.
InJobWindow(updated_at, day, phase) ==
  \/ updated_at[1] > WeekStartDay(day)
  \/ updated_at[1] = WeekStartDay(day) /\ updated_at[2] > phase

\* The orders the job selects: a terminal status, updated_at within the
\* window, and at least one assignment row (order_masters!inner).
CompletedOrders(ord, om, day, phase) ==
  { id \in DOMAIN ord :
      /\ ord[id].status \in TerminalStatuses
      /\ InJobWindow(ord[id].updated_at, day, phase)
      /\ MastersOf(om, id) # {} }

\* The sum over a set of assignment rows of total * percent, in units of
\* 1 / PercentTotal of a hundredth.
RECURSIVE ShareSum(_, _)
ShareSum(ord, rows) ==
  IF rows = {} THEN 0
  ELSE LET r == CHOOSE x \in rows : TRUE
       IN  ord[r.order_id].total * r.percent + ShareSum(ord, rows \ {r})

\* A sum of shares as the DECIMAL(10,2) column amount stores it.
StoredAmount(shares) == (shares + (PercentTotal \div 2)) \div PercentTotal

\* masterSalaries: for every master of a selected order, the sum of
\* order.total * (master.percent / 100) over the selected orders.
MasterSalaries(ord, om, completed) ==
  LET rows    == { r \in om : r.order_id \in completed }
      masters == { r.master_id : r \in rows }
  IN  [m \in masters |->
         StoredAmount(ShareSum(ord, { r \in rows : r.master_id = m }))]

\* masterSalaries.entries(), one master after the other.
RECURSIVE Entries(_)
Entries(f) ==
  IF DOMAIN f = {} THEN << >>
  ELSE LET m == CHOOSE x \in DOMAIN f : TRUE
       IN  <<[master_id |-> m, amount |-> f[m]]>>
             \o Entries([x \in DOMAIN f \ {m} |-> f[x]])

\* A row of salaries the job writes: no order, and the id of the row.
WeeklyRow(id, master_id, amount, week_period) ==
  [id |-> id, master_id |-> master_id, order_id |-> NullId,
   amount |-> amount, week_period |-> week_period]

\* The rows of salaries the job wrote.
WeeklyRows(sal) == { r \in BagToSet(sal) : "id" \in DOMAIN r }

\* No row found by the select of the job.
NoSalary == 0

\* select('id').eq('master_id', ...).eq('week_period', ...).single(): the
\* id of the row when exactly one row matches; none or several rows give
\* the error PGRST116 and no data.  The week_period of the job is a Sunday
\* and that of a per-order row a Monday, so only rows of the job match.
SelectExistingSalary(sal, master_id, week_period) ==
  LET found == { r \in WeeklyRows(sal) :
                   r.master_id = master_id /\ r.week_period = week_period }
  IN  IF Cardinality(found) = 1 THEN (CHOOSE r \in found : TRUE).id
      ELSE NoSalary

\* The ids of the rows of the job are taken in the order of insertion.
NextSalaryId(sal) == Cardinality(WeeklyRows(sal)) + 1

\* if (existingSalary) update({amount, week_period}).eq('id', ...) else
\* insert({master_id, amount, week_period}).
WriteSalary(sal, existingSalary, master_id, amount, week_period) ==
  IF existingSalary # NoSalary
    THEN LET hit == { r \in WeeklyRows(sal) : r.id = existingSalary }
         IN  IF hit = {} THEN sal
             ELSE LET old == CHOOSE r \in hit : TRUE
                  IN  (sal (-) SetToBag({old}))
                        (+) SetToBag({[old EXCEPT !.amount = amount,
                                         !.week_period = week_period]})
  ELSE sal (+) SetToBag({WeeklyRow(NextSalaryId(sal), master_id, amount,
                                   week_period)})

\* The loop over masterSalaries.entries() of one run that no other run
\* interleaves with.
RECURSIVE UpsertAll(_, _, _)
UpsertAll(sal, todo, week_period) ==
  IF todo = << >> THEN sal
  ELSE UpsertAll(
         WriteSalary(sal,
                     SelectExistingSalary(sal, todo[1].master_id, week_period),
                     todo[1].master_id, todo[1].amount, week_period),
         Tail(todo), week_period)

\* The clock after a run.
LastPhase == CHOOSE p \in Phases : \A q \in Phases : q <= p

TimePasses ==
  IF clock < LastPhase
    THEN /\ clock' = clock + 1
         /\ UNCHANGED today
  ELSE /\ today < MaxDay
       /\ today' = today + 1
       /\ clock' = FirstPhase

\* Time moves on to the next time of day.
Tick ==
  /\ TimePasses
  /\ UNCHANGED <<orders, order_masters, salaries, debts, payments, last>>
  /\ UNCHANGED <<notifications, pending, users, caller, parts_sales, jobs, requests>>

\* One whole run of salaryCalculationJob, scheduled or invoked by
\* triggerSalaryCalculation, with no other run in progress.
salaryCalculationJob ==
  LET completed == CompletedOrders(orders, order_masters, today, clock)
      todo == Entries(MasterSalaries(orders, order_masters, completed))
  IN  /\ \A r \in Runners : jobs[r] = NoRun
      /\ TimePasses
      /\ salaries' = IF completed = {} THEN salaries
                     ELSE UpsertAll(salaries, todo, WeekStartDay(today))
      /\ last' = Response("salaryCalculationJob", NullId, NULL, << >>, 0)
      /\ UNCHANGED <<orders, order_masters, debts, payments>>
      /\ UNCHANGED <<notifications, pending, users, caller, parts_sales, jobs, requests>>

\* ----------------------------------------------------------------------
\* SpecWeekly: runs of the salary job, one after the other
\* ----------------------------------------------------------------------
\* Orders handed over at creation (total 1000.00 for m1 alone, or split
\* 60 / 40 between m1 and m2), later reassigned to m2, given another parts
\* cost, or deleted.
WeeklyCreateInputs ==
  { CreateReq(DefaultServices, ms, 40000, "vydan") :
      ms \in { DefaultMasters,
               <<[master_id |-> "m1", percent |-> 6000],
                 [master_id |-> "m2", percent |-> 4000]>> } }

NextWeekly ==
  \/ \E req \in WeeklyCreateInputs : createOrder(req)
  \/ \E id \in OrderIdInputs :
       updateOrderMasters(id, <<[master_id |-> "m2", percent |-> PercentTotal]>>)
  \/ \E id \in OrderIdInputs :
       updateOrder(id, UpdateReq({"parts_cost"}, <<>>, 0, NULL, <<>>))
  \/ \E id \in OrderIdInputs : deleteOrder("admin", id)
  \/ Tick
  \/ salaryCalculationJob

SpecWeekly == Init /\ [][NextWeekly]_vars

\* The assignment rows of a master on orders in a terminal status.  Every
\* order of SpecWeekly is created in the week of the job, so each of these
\* orders reached its status within the week.
TerminalAssignments(ord, om, master_id) ==
  { a \in om : a.master_id = master_id
               /\ ord[a.order_id].status \in TerminalStatuses }

beginSalaryRun(r) ==
  LET completed == CompletedOrders(orders, order_masters, today, clock)
      todo == Entries(MasterSalaries(orders, order_masters, completed))
  IN  /\ jobs[r] = NoRun
      /\ TimePasses
      /\ jobs' = IF completed = {} THEN jobs
                 ELSE [jobs EXCEPT ![r] =
                         [step |-> "select", weekStart |-> WeekStartDay(today),
                          todo |-> todo, found |-> NoSalary]]
      /\ last' = Response("salaryCalculationJob", NullId, NULL, << >>, 0)
      /\ UNCHANGED <<orders, order_masters, salaries, debts, payments>>
      /\ UNCHANGED <<notifications, pending, users, caller, parts_sales, requests>>

\* Lines 54-59: the select of the weekly row of the next master.
selectSalary(r) ==
  /\ jobs[r].step = "select"
  /\ jobs' = [jobs EXCEPT ![r].step = "write",
                          ![r].found =
                             SelectExistingSalary(salaries,
                                                  jobs[r].todo[1].master_id,
                                                  jobs[r].weekStart)]
  /\ UNCHANGED <<orders, order_masters, salaries, debts, payments, today, last>>
  /\ UNCHANGED <<notifications, pending, users, caller, parts_sales, clock, requests>>

\* Lines 66-102: the update or the insert for that master, then the next
\* master, or the end of the run.
writeSalary(r) ==
  /\ jobs[r].step = "write"
  /\ salaries' = WriteSalary(salaries, jobs[r].found,
                             jobs[r].todo[1].master_id,
                             jobs[r].todo[1].amount, jobs[r].weekStart)
  /\ jobs' = IF Tail(jobs[r].todo) = << >> THEN [jobs EXCEPT ![r] = NoRun]
             ELSE [jobs EXCEPT ![r].step = "select",
                               ![r].todo = Tail(jobs[r].todo),
                               ![r].found = NoSalary]
  /\ UNCHANGED <<orders, order_masters, debts, payments, today, last>>
  /\ UNCHANGED <<notifications, pending, users, caller, parts_sales, clock, requests>>

NextWeeklyRace ==
  \/ \E req \in WeeklyCreateInputs : createOrder(req)
  \/ Tick
  \/ \E r \in Runners : beginSalaryRun(r)
  \/ \E r \in Runners : selectSalary(r)
  \/ \E r \in Runners : writeSalary(r)

SpecWeeklyRace == Init /\ [][NextWeeklyRace]_vars

\* The weekly rows of a master for a week.
WeeklyRowsOf(sal, master_id, week_period) ==
  { r \in WeeklyRows(sal) :
      r.master_id = master_id /\ r.week_period = week_period }

MastersRaceInputs ==
  { <<[master_id |-> "m1", percent |-> PercentTotal]>>,
    <<[master_id |-> "m2", percent |-> PercentTotal]>>,
    <<[master_id |-> "m1", percent |-> 6000],
      [master_id |-> "m2", percent |-> 4000]>> }

\* PATCH /orders/:id/masters up to its first await: the validation and the
\* delete of the rows of the order.
beginUpdateOrderMasters(h, id, masters) ==
  /\ requests[h] = NoRequest
  /\ IF Len(masters) = 0 \/ ~PercentOk(masters)
       THEN /\ last' = Response("updateOrderMasters", id, NULL, masters, 400)
            /\ UNCHANGED <<order_masters, requests>>
     ELSE /\ order_masters' = DeleteOrderMastersStmt(order_masters, id)
          /\ requests' = [requests EXCEPT ![h] =
                            [step |-> "insert", id |-> id, masters |-> masters]]
          /\ UNCHANGED last
  /\ UNCHANGED <<orders, salaries, debts, payments, today>>
  /\ UNCHANGED <<notifications, pending, users, caller, parts_sales, clock, jobs>>

\* The rest of the handler: the insert of the rows of the request and the
\* response.
finishUpdateOrderMasters(h) ==
  LET id == requests[h].id
      masters == requests[h].masters
      mst == InsertOrderMastersStmt(orders, order_masters, id, masters)
  IN  /\ requests[h].step = "insert"
      /\ order_masters' = mst.order_masters
      /\ last' = Response("updateOrderMasters", id, NULL, masters,
                          IF mst.ok THEN 200 ELSE 500)
      /\ requests' = [requests EXCEPT ![h] = NoRequest]
      /\ UNCHANGED <<orders, salaries, debts, payments, today>>
      /\ UNCHANGED <<notifications, pending, users, caller, parts_sales, clock, jobs>>

\* The database once createOrder has stored order ZA001, of total 1000.00
\* and assigned to m1 alone.
InitMastersRace ==
  LET ins == InsertOrderStmt(<< >>, NullId, 40000,
                             ServicesCost(DefaultServices), "novyj",
                             DefaultServices, NULL, <<StartDay, FirstPhase>>)
  IN  /\ orders = ins.orders
      /\ order_masters = AssignmentRows(ins.id, DefaultMasters)
      /\ salaries = EmptyBag
      /\ debts = << >>
      /\ payments = << >>
      /\ today = StartDay
      /\ last = Response("createOrder", ins.id, "novyj", DefaultMasters, 201)
      /\ notifications = EmptyBag
      /\ pending = [s \in Sessions |-> NoRow]
      /\ users = InitialUsers
      /\ caller = NoUser
      /\ parts_sales = PartsSales
      /\ clock = FirstPhase
      /\ jobs = [r \in Runners |-> NoRun]
      /\ requests = [h \in Handlers |-> NoRequest]

NextMastersRace ==
  \/ \E h \in Handlers, id \in OrderIdInputs,
        masters \in MastersRaceInputs \cup {<<>>} :
       beginUpdateOrderMasters(h, id, masters)
  \/ \E h \in Handlers : finishUpdateOrderMasters(h)

SpecMastersRace == InitMastersRace /\ [][NextMastersRace]_vars

\* C26: once two updateOrderMasters requests on one order have both been
\* answered, whatever the order of their delete and insert statements, the
\* assignment rows of the order are those of exactly one of the requests:
\* not the rows of both, and not none.
C26_RaceLeavesOneRequestsMasters ==
  ( /\ \A h \in Handlers : requests[h] = NoRequest
    /\ last.op = "updateOrderMasters" /\ last.code # 400
    /\ last.id \in DOMAIN orders )
  => \E masters \in MastersRaceInputs :
       MastersOf(order_masters, last.id) = AssignmentRows(last.id, masters)

C28_SalaryRowsFollowRequestMasters ==
  [][ \A id \in OrderIdInputs, req \in UpdateOrderInputs :
        ( /\ updateOrder(id, req)
          /\ id \in DOMAIN orders /\ id \in DOMAIN orders'
          /\ orders[id].status \notin TerminalStatuses
          /\ orders'[id].status \in TerminalStatuses
          /\ Len(req.masters) > 0 )
        => \A i \in 1..Len(req.masters) :
             \E r \in PerOrderRows(salaries', req.masters[i].master_id, id) :
               r.amount = SalaryAmount(orders'[id].total,
                                       req.masters[i].percent) ]_vars

\* ----------------------------------------------------------------------
\* SpecPhone: sign-in by phone (loginWithPhone, verifyPhone)
\* ----------------------------------------------------------------------
\* Phone numbers of the form the route accepts: the first belongs to the
\* stored user m1, the others to nobody yet.
Phones == {"+79000000001", "+79000000002", "+79000000003"}

\* Codes the route accepts (four to six digits); the first is the test
\* code of the development environment.
TestCode == "123456"

Codes == {TestCode, "000000", "1234"}

NodeEnvs == {"development", "production", "test"}

\* from('auth.users').select(...).eq('phone', phone).single(): the id of
\* the user with that phone; a user created by loginWithPhone is stored
\* under its phone.
UserByPhone(usr, phone) ==
  IF phone = "+79000000001" THEN "m1"
  ELSE IF phone \in DOMAIN usr THEN phone
  ELSE NULL

\* POST /auth/phone-login: creates the user when there is none, role
\* 'master'; no code is generated, stored or sent.
loginWithPhone(phone) ==
  /\ users' = IF UserByPhone(users, phone) = NULL
                THEN users @@ (phone :> "master") ELSE users
  /\ last' = Response("loginWithPhone", NullId, NULL, <<>>, 200)
  /\ UNCHANGED <<orders, order_masters, salaries, debts, payments, today>>
  /\ UNCHANGED <<notifications, pending, caller, parts_sales, clock, jobs, requests>>

\* The response of verifyPhone: the environment and the submitted code it
\* was given, and the user the access token was signed for (NULL: no
\* token).
PhoneResponse(env, phone, code, status, token) ==
  [op |-> "verifyPhone", id |-> NullId, status |-> NULL, masters |-> <<>>,
   code |-> status, env |-> env, phone |-> phone, submitted |-> code,
   token |-> token]

\* POST /auth/phone-verify: the code is compared with '123456' when
\* NODE_ENV is 'development' and with nothing otherwise; then the user is
\* looked up by phone and the token generated.
verifyPhone(env, phone, code) ==
  LET user == UserByPhone(users, phone)
  IN  /\ last' = IF env = "development" /\ code # TestCode
                   THEN PhoneResponse(env, phone, code, 400, NULL)
                 ELSE IF user = NULL
                   THEN PhoneResponse(env, phone, code, 401, NULL)
                 ELSE PhoneResponse(env, phone, code, 200, user)
      /\ UNCHANGED <<orders, order_masters, salaries, debts, payments, today>>
      /\ UNCHANGED <<notifications, pending, users, caller, parts_sales, clock, jobs, requests>>

NextPhone ==
  \/ \E phone \in Phones : loginWithPhone(phone)
  \/ \E env \in NodeEnvs, phone \in Phones, code \in Codes :
       verifyPhone(env, phone, code)

SpecPhone == Init /\ [][NextPhone]_vars

\* C29: verifyPhone issues an access token only when the submitted code is
\* the valid confirmation code; a request with another code is rejected and
\* carries no token, whatever NODE_ENV is.
C29_TokenOnlyForValidCode ==
  last.op = "verifyPhone"
    => ( last.submitted # TestCode
           => last.token = NULL /\ last.code \notin {200, 201} )

\* ----------------------------------------------------------------------
\* SpecShares: the amounts calculate_order_salary computes for one order
\* ----------------------------------------------------------------------
\* The totals, 100.00 to 100.00 + MaxCents hundredths, and the percentages
\* of the masters of the order, each list summing to 100.
MaxCents == 30

ShareTotals == { 10000 + c : c \in 0..MaxCents }

SharePercents ==
  { <<PercentTotal>>, <<6000, 4000>>, <<5000, 5000>>, <<3333, 3333, 3334>> }

\* The loop of the trigger over the masters of the order, up to the
\* INSERT: salary_amount := NEW.total * (master_record.percent / 100) for
\* each of them.
SalaryAmounts(total, percents) ==
  [i \in 1..Len(percents) |-> SalaryAmount(total, percents[i])]

calculateSalaryAmounts(total, percents) ==
  /\ last' = [op |-> "calculate_order_salary", id |-> NullId,
              status |-> "vydan", masters |-> <<>>, code |-> 0,
              total |-> total, percents |-> percents,
              amounts |-> SalaryAmounts(total, percents)]
  /\ UNCHANGED <<orders, order_masters, salaries, debts, payments, today>>
  /\ UNCHANGED <<notifications, pending, users, caller, parts_sales, clock, jobs, requests>>

NextShares ==
  \E total \in ShareTotals, percents \in SharePercents :
    calculateSalaryAmounts(total, percents)

SpecShares == Init /\ [][NextShares]_vars

====
